---- MODULE Spec2Model ----
(***************************************************************************)
(* Model of the API request pipeline of meraki-info                        *)
(* (internal/meraki/client.go): the transport (makeRequest), the retry     *)
(* policy (RetryConfig, calculateBackoff, isRetryableError) and the        *)
(* identifier resolvers (ResolveNetworkID, ResolveOrganizationID).         *)
(*                                                                         *)
(* Durations are whole milliseconds.  Strings that the code compares       *)
(* (identifiers, names) are sequences of one-character strings, so that    *)
(* strings.ToLower is computed character by character.                     *)
(***************************************************************************)
EXTENDS Integers, Sequences, FiniteSets, TLC

VARIABLES
    client,       \* the Client struct: [apiKey, oauth2]
    retryConfig,  \* the client's retry policy (RetryConfig)
    pc,           \* "idle": no call in progress; "done": a call has returned
    call,         \* the operation called last and its inputs
    trace,        \* what the call did, in order: HTTP attempts and backoff waits slept
    open,         \* attempts whose response body is still open
    result,       \* what the call returned
    fn,           \* pure-function specifications: the function applied ("none" before)
    arg,          \* ... its arguments
    ret           \* ... its result

vars == <<client, retryConfig, pc, call, trace, open, result, fn, arg, ret>>

transportVars == <<pc, call, trace, open, result>>
pureVars == <<fn, arg, ret>>

----------------------------------------------------------------------------
(* Bounds of the model *)

\* largest MaxRetries a policy passed to SetRetryConfig has; the server
\* script of a call covers MaxRetriesBound + 1 attempts
MaxRetriesBound == 2

\* largest attempt index passed to calculateBackoff
MaxAttemptIndex == 10

----------------------------------------------------------------------------
(* Values *)

Min(a, b) == IF a < b THEN a ELSE b
Max(a, b) == IF a > b THEN a ELSE b

RECURSIVE Pow(_, _)
Pow(b, e) == IF e <= 0 THEN 1 ELSE b * Pow(b, e - 1)

NoKey == ""
ApiKeys == {"key-1", "key-2"}

\* a nil *http.Response and a response with a status code
NilResp == [nil |-> TRUE, status |-> 0]
Resp(s) == [nil |-> FALSE, status |-> s]

\* a nil error; an error is its format string and the numbers formatted into it
NilErr == [fmt |-> "", args |-> <<>>]

\* the outcome of one httpClient.Do: a transport error or a response status
TransportFailure == [err |-> TRUE, status |-> 0]
Answer(s) == [err |-> FALSE, status |-> s]

\* status codes the server of the transport specification answers with
ServerStatuses == {200, 204, 401, 404, 429, 500, 503}
Outcomes == {TransportFailure} \cup {Answer(s) : s \in ServerStatuses}

ScriptLen == MaxRetriesBound + 1
Scripts == [1..ScriptLen -> Outcomes]

----------------------------------------------------------------------------
(* Retry policy: RetryConfig, its default, SetRetryConfig / GetRetryConfig *)

DefaultMaxRetries == 3
DefaultInitialInterval == 1000
DefaultMaxInterval == 30000
DefaultMultiplier == 2

DefaultRetryConfig ==
    [MaxRetries |-> DefaultMaxRetries,
     InitialInterval |-> DefaultInitialInterval,
     MaxInterval |-> DefaultMaxInterval,
     Multiplier |-> DefaultMultiplier]

\* the policies that SetRetryConfig is called with (the tests' values among
\* them); the multiplier is a whole number
RetryConfigs ==
    [MaxRetries : 0..MaxRetriesBound,
     InitialInterval : {10, 500, 1000},
     MaxInterval : {100, 5000, 60000},
     Multiplier : {1, 2, 3}]

\* the policies of the retry tests of makeRequest: 10ms, 100ms, 2.0
TestRetryConfigs ==
    [MaxRetries : 0..MaxRetriesBound,
     InitialInterval : {10},
     MaxInterval : {100},
     Multiplier : {2}]

GetRetryConfig == retryConfig

\* InitialInterval * Multiplier^e as a duration (the conversion truncates)
Scale(initial, mult, e) ==
    IF e >= 0 THEN initial * Pow(mult, e) ELSE initial \div Pow(mult, 0 - e)

BackoffExponentZeroBased(attempt) == attempt

BackoffExponentUnclamped(attempt) == attempt - 1

\* the exponent of the multiplier for an attempt number: attempt - 1, and 0
\* for attempt 0 (TestCalculateBackoff: with the default policy attempts 0, 1
\* and 2 give 1s, 1s and 2s)
BackoffExponent(attempt) == Max(attempt - 1, 0)

calculateBackoffNoCap(cfg, attempt) ==
    Scale(cfg.InitialInterval, cfg.Multiplier, BackoffExponent(attempt))

\* calculateBackoff(attempt) under policy cfg
calculateBackoff(cfg, attempt) ==
    LET backoff == Scale(cfg.InitialInterval, cfg.Multiplier, BackoffExponent(attempt))
    IN  IF backoff > cfg.MaxInterval THEN cfg.MaxInterval ELSE backoff

RetryableStatuses == {429, 500, 502, 503, 504}

isRetryableErrorAny5xx(err, statusCode) ==
    err \/ statusCode = 429 \/ statusCode >= 500

\* isRetryableError(err, statusCode); err is TRUE for a non-nil error
isRetryableError(err, statusCode) ==
    err \/ statusCode \in RetryableStatuses

\* the status codes the classification is applied to
ClassifiedStatuses ==
    {0, 200, 204, 301, 400, 401, 403, 404, 408, 429, 500, 501, 502, 503, 504}

----------------------------------------------------------------------------
(* Construction *)

\* NewClient: an empty key is refused
NewClient(apiKey) ==
    IF apiKey = NoKey
    THEN [ok |-> FALSE, client |-> [apiKey |-> NoKey, oauth2 |-> FALSE]]
    ELSE [ok |-> TRUE, client |-> [apiKey |-> apiKey, oauth2 |-> FALSE]]

\* NewClientWithOAuth2: the http client carries the token, apiKey stays empty
NewClientWithOAuth2 ==
    [ok |-> TRUE, client |-> [apiKey |-> NoKey, oauth2 |-> TRUE]]

Constructed ==
    {r.client : r \in {x \in {NewClient(k) : k \in ApiKeys \cup {NoKey}}
                                 \cup {NewClientWithOAuth2} : x.ok}}

----------------------------------------------------------------------------
(* Transport: makeRequest *)

HdrApiKey == "X-Cisco-Meraki-API-Key"
HdrContentType == "Content-Type"
HdrUserAgent == "User-Agent"
Headers == {HdrApiKey, HdrContentType, HdrUserAgent}

\* a header that was never set
Unset == "<unset>"

BuildRequestNoContentType(c) ==
    [h \in Headers |->
        IF h = HdrApiKey THEN (IF c.apiKey # NoKey THEN c.apiKey ELSE Unset)
        ELSE IF h = HdrUserAgent THEN "meraki-info/1.0.0"
        ELSE Unset]

\* the request of one call: its headers
BuildRequest(c) ==
    [h \in Headers |->
        IF h = HdrApiKey THEN (IF c.apiKey # NoKey THEN c.apiKey ELSE Unset)
        ELSE IF h = HdrContentType THEN "application/json"
        ELSE "meraki-info/1.0.0"]

StatusOKBelow500(s) == s >= 200 /\ s < 500

\* the success test on a response status
StatusOK(s) == s >= 200 /\ s < 300

\* the events of a call: one HTTP attempt (httpClient.Do), one backoff sleep
Request(endpoint, req) ==
    [kind |-> "request", endpoint |-> endpoint, headers |-> req, d |-> 0]
Wait(d) == [kind |-> "wait", endpoint |-> <<>>, headers |-> <<>>, d |-> d]

IsRequest(e) == e.kind = "request"
IsWait(e) == e.kind = "wait"
Requests(tr) == SelectSeq(tr, IsRequest)
Waits(tr) == SelectSeq(tr, IsWait)

ErrCreateRequest == [fmt |-> "failed to create request: %w", args |-> <<>>]
ErrMakeRequest == [fmt |-> "failed to make request: %w", args |-> <<>>]
ErrStatus(s) == [fmt |-> "API request failed with status: %d", args |-> <<s>>]

makeRequestRetryOnce(c, endpoint, urlOK, script) ==
    IF ~urlOK
    THEN [trace |-> <<>>, open |-> {}, resp |-> NilResp, err |-> ErrCreateRequest]
    ELSE IF ~script[1].err /\ StatusOK(script[1].status)
    THEN [trace |-> <<Request(endpoint, BuildRequest(c))>>, open |-> {1},
          resp |-> Resp(script[1].status), err |-> NilErr]
    ELSE IF ~script[2].err /\ StatusOK(script[2].status)
    THEN [trace |-> <<Request(endpoint, BuildRequest(c)), Request(endpoint, BuildRequest(c))>>,
          open |-> {2}, resp |-> Resp(script[2].status), err |-> NilErr]
    ELSE [trace |-> <<Request(endpoint, BuildRequest(c)), Request(endpoint, BuildRequest(c))>>,
          open |-> {}, resp |-> NilResp,
          err |-> IF script[2].err THEN ErrMakeRequest ELSE ErrStatus(script[2].status)]

makeRequestLeaking(c, endpoint, urlOK, script) ==
    IF ~urlOK
    THEN [trace |-> <<>>, open |-> {}, resp |-> NilResp, err |-> ErrCreateRequest]
    ELSE IF script[1].err
    THEN [trace |-> <<Request(endpoint, BuildRequest(c))>>, open |-> {},
          resp |-> NilResp, err |-> ErrMakeRequest]
    ELSE IF ~StatusOK(script[1].status)
    THEN [trace |-> <<Request(endpoint, BuildRequest(c))>>, open |-> {1},
          resp |-> NilResp, err |-> ErrStatus(script[1].status)]
    ELSE [trace |-> <<Request(endpoint, BuildRequest(c))>>, open |-> {1},
          resp |-> Resp(script[1].status), err |-> NilErr]

\* makeRequest("GET", endpoint) on client c, when the URL is well-formed or
\* not and the server answers the i-th request with script[i]; the effects
\* and the returned pair
makeRequest(c, endpoint, urlOK, script) ==
    IF ~urlOK
    THEN [trace |-> <<>>, open |-> {},
          resp |-> NilResp, err |-> ErrCreateRequest]
    ELSE LET req == BuildRequest(c)
             out == script[1]
         IN  IF out.err
             THEN [trace |-> <<Request(endpoint, req)>>, open |-> {},
                   resp |-> NilResp, err |-> ErrMakeRequest]
             ELSE IF ~StatusOK(out.status)
             THEN [trace |-> <<Request(endpoint, req)>>, open |-> {},
                   resp |-> NilResp, err |-> ErrStatus(out.status)]
             ELSE [trace |-> <<Request(endpoint, req)>>, open |-> {1},
                   resp |-> Resp(out.status), err |-> NilErr]

----------------------------------------------------------------------------
(* Specification of the transport: a client, its policy, one call at a time *)

NoCall == [op |-> "none"]
NoResult == [err |-> NilErr]

\* the endpoint of the transport tests
TestEndpoint == <<"/test">>

Init ==
    /\ client \in Constructed
    /\ retryConfig = DefaultRetryConfig
    /\ pc = "idle"
    /\ call = NoCall
    /\ trace = <<>>
    /\ open = {}
    /\ result = NoResult
    /\ fn = "none"
    /\ arg = <<>>
    /\ ret = <<>>

\* a call starts when none is in progress
Idle == pc = "idle"

SetRetryConfig(cfg) ==
    /\ Idle
    /\ fn = "none"
    /\ retryConfig' = cfg
    /\ UNCHANGED <<client, transportVars, pureVars>>

\* one call of makeRequest; the environment decides whether the URL parses
\* and what the server answers to each attempt
MakeRequest ==
    /\ Idle
    /\ \E urlOK \in BOOLEAN, script \in Scripts :
           LET r == makeRequest(client, TestEndpoint, urlOK, script)
           IN  /\ trace' = r.trace
               /\ open' = r.open
               /\ result' = [resp |-> r.resp, err |-> r.err]
               /\ call' = [op |-> "makeRequest", urlOK |-> urlOK, script |-> script]
    /\ pc' = "done"
    /\ UNCHANGED <<client, retryConfig, pureVars>>

\* the caller closes the body it was handed and the next call can start
Return ==
    /\ pc = "done"
    /\ pc' = "idle"
    /\ call' = NoCall
    /\ trace' = <<>>
    /\ open' = {}
    /\ result' = NoResult
    /\ UNCHANGED <<client, retryConfig, pureVars>>

Next ==
    \/ \E cfg \in TestRetryConfigs : SetRetryConfig(cfg)
    \/ MakeRequest
    \/ Return

Spec == Init /\ [][Next]_vars

----------------------------------------------------------------------------
(* Specification of the retry policy: the policy is set any number of      *)
(* times, then calculateBackoff or isRetryableError is applied             *)

CalculateBackoff(attempt) ==
    /\ fn = "none"
    /\ fn' = "calculateBackoff"
    /\ arg' = [attempt |-> attempt]
    /\ ret' = calculateBackoff(retryConfig, attempt)
    /\ UNCHANGED <<client, retryConfig, transportVars>>

IsRetryableError(err, statusCode) ==
    /\ fn = "none"
    /\ fn' = "isRetryableError"
    /\ arg' = [err |-> err, statusCode |-> statusCode]
    /\ ret' = isRetryableError(err, statusCode)
    /\ UNCHANGED <<client, retryConfig, transportVars>>

NextRetry ==
    \/ \E cfg \in RetryConfigs : SetRetryConfig(cfg)
    \/ \E attempt \in 0..MaxAttemptIndex : CalculateBackoff(attempt)
    \/ \E err \in BOOLEAN, s \in ClassifiedStatuses : IsRetryableError(err, s)

SpecRetry == Init /\ [][NextRetry]_vars

----------------------------------------------------------------------------
(* Identifier resolver: ResolveNetworkID, ResolveOrganizationID *)

\* largest number of candidates in a listing
MaxCandidates == 3

\* strings are sequences of characters; strings.ToLower maps each character
UpperCase ==
    <<"A", "B", "C", "D", "E", "F", "G", "H", "I", "J", "K", "L", "M",
      "N", "O", "P", "Q", "R", "S", "T", "U", "V", "W", "X", "Y", "Z">>
LowerCase ==
    <<"a", "b", "c", "d", "e", "f", "g", "h", "i", "j", "k", "l", "m",
      "n", "o", "p", "q", "r", "s", "t", "u", "v", "w", "x", "y", "z">>

ToLowerChar(ch) ==
    IF \E i \in DOMAIN UpperCase : UpperCase[i] = ch
    THEN LowerCase[CHOOSE i \in DOMAIN UpperCase : UpperCase[i] = ch]
    ELSE ch

ToLower(str) == [i \in DOMAIN str |-> ToLowerChar(str[i])]

EmptyString == <<>>

\* identifiers and display names of the candidates of a listing, and the
\* tokens a user passes
CandidateIds == {<<"A">>, <<"X">>}
CandidateNames == {<<"X">>, <<"x">>, <<"Y", "o">>}
Tokens == {EmptyString, <<"A">>, <<"X">>, <<"x">>, <<"Y", "o">>, <<"Y", "O">>, <<"Q">>}
OrgIds == {"org-1"}

Candidates == [id : CandidateIds, name : CandidateNames]

\* the listings of at most MaxCandidates candidates
Listings == UNION {[1..n -> Candidates] : n \in 0..MaxCandidates}

\* what the listing endpoint does: the outcome of the request, whether the
\* body decodes, and the candidates it lists
Replies ==
    {[out |-> o, decodes |-> FALSE, listing |-> <<>>] : o \in Outcomes}
    \cup {[out |-> Answer(200), decodes |-> TRUE, listing |-> l] : l \in Listings}

Wrap(f, e) == [fmt |-> f, args |-> <<e>>]
ErrJSON == [fmt |-> "json: cannot decode the response body", args |-> <<>>]
Items(f, items) == [fmt |-> f, args |-> items]

NetworksEndpoint(organizationID) == <<"/organizations/", organizationID, "/networks">>
OrganizationsEndpoint == <<"/organizations">>

\* getOrganizationNetworks: one request, the body closed on return
getOrganizationNetworks(c, organizationID, urlOK, reply) ==
    LET r == makeRequest(c, NetworksEndpoint(organizationID), urlOK, <<reply.out>>)
    IN  IF r.err # NilErr
        THEN [trace |-> r.trace, list |-> <<>>, err |-> r.err]
        ELSE IF ~reply.decodes
        THEN [trace |-> r.trace, list |-> <<>>,
              err |-> Wrap("failed to decode networks response: %w", ErrJSON)]
        ELSE [trace |-> r.trace, list |-> reply.listing, err |-> NilErr]

\* GetOrganizations: one request, the body closed on return
GetOrganizations(c, reply) ==
    LET r == makeRequest(c, OrganizationsEndpoint, TRUE, <<reply.out>>)
    IN  IF r.err # NilErr
        THEN [trace |-> r.trace, list |-> <<>>,
              err |-> Wrap("failed to get organizations: %w", r.err)]
        ELSE IF ~reply.decodes
        THEN [trace |-> r.trace, list |-> <<>>,
              err |-> Wrap("failed to decode organizations response: %w", ErrJSON)]
        ELSE [trace |-> r.trace, list |-> reply.listing, err |-> NilErr]

idMatchFirstOnly(list, identifier) ==
    Len(list) > 0 /\ list[1].id = identifier

\* the first loop of a resolver: some candidate has the identifier as its id
idMatch(list, identifier) ==
    \E i \in DOMAIN list : list[i].id = identifier

nameMatchesFirstOnly(list, identifier) ==
    LET lowerIdentifier == ToLower(identifier)
        Matches(x) == ToLower(x.name) = lowerIdentifier
        all == SelectSeq(list, Matches)
    IN  IF Len(all) > 1 THEN <<all[1]>> ELSE all

nameMatchesCaseSensitive(list, identifier) ==
    LET Matches(x) == x.name = identifier
    IN  SelectSeq(list, Matches)

\* the second loop: the candidates whose name is the identifier, ignoring case
nameMatches(list, identifier) ==
    LET lowerIdentifier == ToLower(identifier)
        Matches(x) == ToLower(x.name) = lowerIdentifier
    IN  SelectSeq(list, Matches)

NameIdPairsFirstOnly(list) ==
    [i \in DOMAIN SubSeq(list, 1, 1) |-> [name |-> list[i].name, id |-> list[i].id]]

\* "%s (ID: %s)" of every candidate; the IDs of every candidate
NameIdPairs(list) == [i \in DOMAIN list |-> [name |-> list[i].name, id |-> list[i].id]]
IdsOf(list) == [i \in DOMAIN list |-> list[i].id]

ResolveNetworkIDPassThrough(c, organizationID, networkIdentifier, urlOK, reply) ==
    LET l == getOrganizationNetworks(c, organizationID, urlOK, reply)
        matchedNetworks == nameMatches(l.list, networkIdentifier)
    IN  IF networkIdentifier = EmptyString
        THEN [trace |-> <<>>, id |-> EmptyString, err |-> NilErr]
        ELSE IF l.err # NilErr
        THEN [trace |-> l.trace, id |-> EmptyString,
              err |-> Wrap("failed to get networks for organization %s: %w", l.err)]
        ELSE IF Len(matchedNetworks) = 1 /\ ~idMatch(l.list, networkIdentifier)
        THEN [trace |-> l.trace, id |-> matchedNetworks[1].id, err |-> NilErr]
        ELSE [trace |-> l.trace, id |-> networkIdentifier, err |-> NilErr]

ResolveNetworkID(c, organizationID, networkIdentifier, urlOK, reply) ==
    IF networkIdentifier = EmptyString
    THEN [trace |-> <<>>, id |-> EmptyString, err |-> NilErr]
    ELSE
    LET l == getOrganizationNetworks(c, organizationID, urlOK, reply)
        networks == l.list
        matchedNetworks == nameMatches(networks, networkIdentifier)
        Fail(e) == [trace |-> l.trace, id |-> EmptyString, err |-> e]
    IN  IF l.err # NilErr
        THEN Fail(Wrap("failed to get networks for organization %s: %w", l.err))
        ELSE IF idMatch(networks, networkIdentifier)
        THEN [trace |-> l.trace, id |-> networkIdentifier, err |-> NilErr]
        ELSE IF Len(matchedNetworks) = 0
        THEN IF Len(networks) > 0
             THEN Fail(Items("network '%s' not found in organization %s. Available networks: %v",
                             NameIdPairs(networks)))
             ELSE Fail(Items("network '%s' not found in organization %s (no networks found)",
                             <<>>))
        ELSE IF Len(matchedNetworks) > 1
        THEN Fail(Items("multiple networks found with name '%s' in organization %s. Please use network ID instead. Network IDs: %v",
                        IdsOf(matchedNetworks)))
        ELSE [trace |-> l.trace, id |-> matchedNetworks[1].id, err |-> NilErr]

ResolveOrganizationIDAlwaysLists(c, organizationIdentifier, reply) ==
    LET l == GetOrganizations(c, reply)
        matchedOrganizations == nameMatches(l.list, organizationIdentifier)
        Fail(e) == [trace |-> l.trace, id |-> EmptyString, err |-> e]
    IN  IF l.err # NilErr
        THEN Fail(Wrap("failed to get organizations: %w", l.err))
        ELSE IF idMatch(l.list, organizationIdentifier)
        THEN [trace |-> l.trace, id |-> organizationIdentifier, err |-> NilErr]
        ELSE IF Len(matchedOrganizations) = 1
        THEN [trace |-> l.trace, id |-> matchedOrganizations[1].id, err |-> NilErr]
        ELSE Fail(Items("organization '%s' not found", NameIdPairs(l.list)))

ResolveOrganizationID(c, organizationIdentifier, reply) ==
    IF organizationIdentifier = EmptyString
    THEN [trace |-> <<>>, id |-> EmptyString, err |-> NilErr]
    ELSE
    LET l == GetOrganizations(c, reply)
        organizations == l.list
        matchedOrganizations == nameMatches(organizations, organizationIdentifier)
        Fail(e) == [trace |-> l.trace, id |-> EmptyString, err |-> e]
    IN  IF l.err # NilErr
        THEN Fail(Wrap("failed to get organizations: %w", l.err))
        ELSE IF idMatch(organizations, organizationIdentifier)
        THEN [trace |-> l.trace, id |-> organizationIdentifier, err |-> NilErr]
        ELSE IF Len(matchedOrganizations) = 0
        THEN IF Len(organizations) > 0
             THEN Fail(Items("organization '%s' not found. Available organizations: %v",
                             NameIdPairs(organizations)))
             ELSE Fail(Items("organization '%s' not found (no organizations found)", <<>>))
        ELSE IF Len(matchedOrganizations) > 1
        THEN Fail(Items("multiple organizations found with name '%s': %v. Please use organization ID for disambiguation",
                        NameIdPairs(matchedOrganizations)))
        ELSE [trace |-> l.trace, id |-> matchedOrganizations[1].id, err |-> NilErr]

----------------------------------------------------------------------------
(* Specification of the resolvers: one resolution at a time *)

\* one call of ResolveNetworkID; the environment decides whether the URL
\* parses and what the listing endpoint replies
ResolveNetwork(organizationID, token) ==
    /\ Idle
    /\ \E urlOK \in BOOLEAN, reply \in Replies :
           /\ urlOK \/ reply.listing = <<>>
           /\ LET r == ResolveNetworkID(client, organizationID, token, urlOK, reply)
              IN  /\ trace' = r.trace
                  /\ result' = [id |-> r.id, err |-> r.err]
           /\ call' = [op |-> "ResolveNetworkID", organizationID |-> organizationID,
                       token |-> token, urlOK |-> urlOK, reply |-> reply]
    /\ open' = {}
    /\ pc' = "done"
    /\ UNCHANGED <<client, retryConfig, pureVars>>

\* one call of ResolveOrganizationID
ResolveOrganization(token) ==
    /\ Idle
    /\ \E reply \in Replies :
           /\ LET r == ResolveOrganizationID(client, token, reply)
              IN  /\ trace' = r.trace
                  /\ result' = [id |-> r.id, err |-> r.err]
           /\ call' = [op |-> "ResolveOrganizationID", organizationID |-> "",
                       token |-> token, urlOK |-> TRUE, reply |-> reply]
    /\ open' = {}
    /\ pc' = "done"
    /\ UNCHANGED <<client, retryConfig, pureVars>>

NextResolve ==
    \/ \E o \in OrgIds, token \in Tokens : ResolveNetwork(o, token)
    \/ \E token \in Tokens : ResolveOrganization(token)
    \/ Return

SpecResolve == Init /\ [][NextResolve]_vars

----------------------------------------------------------------------------
(* Route fetchers: getNetworkRoutes and its sub-fetches *)

\* largest number of switch stacks a network lists
MaxStacks == 2

\* strconv of the small numbers that fmt.Sprintf formats with %d
Itoa(n) ==
    CASE n = 0 -> "0" [] n = 1 -> "1" [] n = 2 -> "2" [] n = 3 -> "3"
      [] n = 4 -> "4" [] n = 5 -> "5" [] OTHER -> "9"

\* a string the code builds or decodes is the sequence of its parts: a
\* decoded string is one part (none when it is empty), fmt.Sprintf gives the
\* format followed by its arguments
Lit(str) == IF str = "" THEN <<>> ELSE <<str>>
Sprintf(f, a) == <<f>> \o a

\* the Route struct (gatewayVlanId and fixedIpAssignments are carried
\* through unchanged and left out)
Route(id, name, subnet, gatewayIp, enabled) ==
    [ID |-> id, Name |-> name, Subnet |-> subnet,
     GatewayIP |-> gatewayIp, Enabled |-> enabled]

\* what an endpoint replies: the outcome of the request, whether the body
\* decodes, and the decoded body
Failing(kind) ==
    CASE kind = "transport" -> [out |-> TransportFailure, decodes |-> FALSE, listing |-> <<>>]
      [] kind = "status" -> [out |-> Answer(404), decodes |-> FALSE, listing |-> <<>>]
      [] OTHER -> [out |-> Answer(200), decodes |-> FALSE, listing |-> <<>>]
Serving(body) == [out |-> Answer(200), decodes |-> TRUE, listing |-> body]

FailKinds == {"transport", "status", "decode"}

\* one request to an endpoint built from identifiers of a listing, and the
\* decoding of its body (resp.Body is closed when the fetcher returns)
Fetched(c, endpoint, reply) ==
    LET r == makeRequest(c, endpoint, TRUE, <<reply.out>>)
    IN  [trace |-> r.trace, err |-> r.err,
         decodes |-> reply.decodes, body |-> reply.listing]

\* the elements of a sequence of [keep, route] pairs that are kept
KeptRouteAll(x) == TRUE

KeptRoute(x) == x.keep
Kept(pairs) ==
    LET sel == SelectSeq(pairs, KeptRoute)
    IN  [i \in DOMAIN sel |-> sel[i].route]

\* upstream static routes without a name get the name format with their
\* position (i + 1 for the 0-based i of the code)
Named(routes, format) ==
    [i \in DOMAIN routes |->
        IF routes[i].Name = <<>>
        THEN [routes[i] EXCEPT !.Name = Sprintf(format, <<Itoa(i)>>)]
        ELSE routes[i]]

getNetworkStaticRoutes(c, networkID, reply) ==
    LET Decoded(f) ==
            IF f.err # NilErr
            THEN [trace |-> f.trace, routes |-> <<>>, err |-> f.err]
            ELSE IF ~f.decodes
            THEN [trace |-> f.trace, routes |-> <<>>,
                  err |-> Wrap("failed to decode static routes response: %w", ErrJSON)]
            ELSE [trace |-> f.trace, routes |-> Named(f.body, "Static Route %d"),
                  err |-> NilErr]
    IN  Decoded(Fetched(c, <<"/networks/", networkID, "/appliance/staticRoutes">>, reply))

getNetworkVPNRoutes(c, networkID, reply) ==
    LET Decoded(f) ==
            LET subnets == f.body
            IN  IF f.err # NilErr \/ ~f.decodes
                THEN [trace |-> f.trace, routes |-> <<>>, err |-> NilErr]
                ELSE [trace |-> f.trace,
                      routes |-> Kept([i \in DOMAIN subnets |->
                          [keep |-> subnets[i].useVpn,
                           route |-> Route(Sprintf("vpn-%d", <<Itoa(i - 1)>>),
                                           Sprintf("VPN Route %d", <<Itoa(i)>>),
                                           subnets[i].localSubnet, "", TRUE)]]),
                      err |-> NilErr]
    IN  Decoded(Fetched(c, <<"/networks/", networkID, "/appliance/vpn/siteToSiteVpn">>, reply))

getNetworkVLANRoutes(c, networkID, reply) ==
    LET Decoded(f) ==
            LET vlans == f.body
            IN  IF f.err # NilErr \/ ~f.decodes
                THEN [trace |-> f.trace, routes |-> <<>>, err |-> NilErr]
                ELSE [trace |-> f.trace,
                      routes |-> Kept([i \in DOMAIN vlans |->
                          [keep |-> vlans[i].subnet # "",
                           route |-> Route(Sprintf("vlan-%d", <<Itoa(vlans[i].id)>>),
                                           Sprintf("VLAN %d - %s", <<Itoa(vlans[i].id), vlans[i].name>>),
                                           vlans[i].subnet, vlans[i].applianceIp, TRUE)]]),
                      err |-> NilErr]
    IN  Decoded(Fetched(c, <<"/networks/", networkID, "/appliance/vlans">>, reply))

getNetworkSwitchInterfacesStrict(c, networkID, reply) ==
    LET Decoded(f) ==
            IF f.err # NilErr \/ ~f.decodes
            THEN [trace |-> f.trace, routes |-> <<>>, err |-> ErrJSON]
            ELSE [trace |-> f.trace, routes |-> <<>>, err |-> NilErr]
    IN  Decoded(Fetched(c, <<"/networks/", networkID, "/switch/routing/interfaces">>, reply))

getNetworkSwitchInterfaces(c, networkID, reply) ==
    LET Decoded(f) ==
            LET interfaces == f.body
            IN  IF f.err # NilErr \/ ~f.decodes
                THEN [trace |-> f.trace, routes |-> <<>>, err |-> NilErr]
                ELSE [trace |-> f.trace,
                      routes |-> Kept([i \in DOMAIN interfaces |->
                          [keep |-> interfaces[i].subnet # "",
                           route |-> Route(Sprintf("switch-iface-%s", <<interfaces[i].interfaceId>>),
                                           Sprintf("Switch Interface - %s", <<interfaces[i].name>>),
                                           interfaces[i].subnet, interfaces[i].interfaceIp, TRUE)]]),
                      err |-> NilErr]
    IN  Decoded(Fetched(c, <<"/networks/", networkID, "/switch/routing/interfaces">>, reply))

getNetworkSwitchStaticRoutes(c, networkID, reply) ==
    LET Decoded(f) ==
            IF f.err # NilErr \/ ~f.decodes
            THEN [trace |-> f.trace, routes |-> <<>>, err |-> NilErr]
            ELSE [trace |-> f.trace, routes |-> Named(f.body, "Switch Static Route %d"),
                  err |-> NilErr]
    IN  Decoded(Fetched(c, <<"/networks/", networkID, "/switch/routing/staticRoutes">>, reply))

\* getNetworkSwitchRoutes: the switch interfaces, then the switch static
\* routes; w gives the reply of every endpoint of the network
getNetworkSwitchRoutes(c, networkID, w) ==
    LET Combined(switchInterfaces, switchStaticRoutes) ==
            IF switchInterfaces.err # NilErr
            THEN [trace |-> switchInterfaces.trace, routes |-> <<>>, err |-> NilErr]
            ELSE [trace |-> switchInterfaces.trace \o switchStaticRoutes.trace,
                  routes |-> switchInterfaces.routes \o switchStaticRoutes.routes,
                  err |-> NilErr]
    IN  Combined(getNetworkSwitchInterfaces(c, networkID, w.switchInterfaces),
                 getNetworkSwitchStaticRoutes(c, networkID, w.switchStatic))

getNetworkSwitchStacks(c, networkID, reply) ==
    LET Decoded(f) ==
            IF f.err # NilErr \/ ~f.decodes
            THEN [trace |-> f.trace, stacks |-> <<>>, err |-> NilErr]
            ELSE [trace |-> f.trace, stacks |-> f.body, err |-> NilErr]
    IN  Decoded(Fetched(c, <<"/networks/", networkID, "/switch/stacks">>, reply))

getSwitchStackRoutingInterfaces(c, networkID, stackID, reply) ==
    LET Decoded(f) ==
            LET interfaces == f.body
            IN  IF f.err # NilErr \/ ~f.decodes
                THEN [trace |-> f.trace, routes |-> <<>>, err |-> NilErr]
                ELSE [trace |-> f.trace,
                      routes |-> Kept([i \in DOMAIN interfaces |->
                          [keep |-> interfaces[i].subnet # "",
                           route |-> Route(Sprintf("stack-%s-iface-%s",
                                                   <<stackID, interfaces[i].interfaceId>>),
                                           Sprintf("Stack Interface - %s", <<interfaces[i].name>>),
                                           interfaces[i].subnet, interfaces[i].interfaceIp, TRUE)]]),
                      err |-> NilErr]
    IN  Decoded(Fetched(c, <<"/networks/", networkID, "/switch/stacks/", stackID, "/routing/interfaces">>, reply))

getSwitchStackStaticRoutes(c, networkID, stackID, reply) ==
    LET Decoded(f) ==
            LET apiRoutes == f.body
            IN  IF f.err # NilErr \/ ~f.decodes
                THEN [trace |-> f.trace, routes |-> <<>>, err |-> NilErr]
                ELSE [trace |-> f.trace,
                      routes |-> [i \in DOMAIN apiRoutes |->
                          Route(Lit(apiRoutes[i].staticRouteId),
                                IF apiRoutes[i].name = ""
                                THEN Sprintf("Stack %s Static Route", <<stackID>>)
                                ELSE Lit(apiRoutes[i].name),
                                apiRoutes[i].subnet, apiRoutes[i].nextHopIp,
                                apiRoutes[i].preferOverOspfRoutesEnabled)],
                      err |-> NilErr]
    IN  Decoded(Fetched(c, <<"/networks/", networkID, "/switch/stacks/", stackID, "/routing/staticRoutes">>, reply))

\* the decoded body is dhcpRelayServerIps, the only part the code reads
getSwitchStackDHCPRoutes(c, networkID, stackID, reply) ==
    LET Decoded(f) ==
            LET relayServers == f.body
            IN  IF f.err # NilErr \/ ~f.decodes
                THEN [trace |-> f.trace, routes |-> <<>>, err |-> NilErr]
                ELSE [trace |-> f.trace,
                      routes |-> Kept([i \in DOMAIN relayServers |->
                          [keep |-> relayServers[i] # "",
                           route |-> Route(Sprintf("stack-%s-dhcp-relay-%d", <<stackID, Itoa(i - 1)>>),
                                           Sprintf("Stack %s DHCP Relay %d", <<stackID, Itoa(i)>>),
                                           "0.0.0.0/0", relayServers[i], TRUE)]]),
                      err |-> NilErr]
    IN  Decoded(Fetched(c, <<"/networks/", networkID, "/switch/stacks/", stackID, "/routing/dhcp">>, reply))

\* the routes of a sub-fetch are appended unless it returned an error
Appended(r) == IF r.err # NilErr THEN <<>> ELSE r.routes

\* the body of the loop over the stacks, from stack k on: the interfaces,
\* the static routes and the DHCP relays of each stack, appended in turn
RECURSIVE stackLoop(_, _, _, _, _)
stackLoop(c, networkID, stacks, replies, k) ==
    LET Combined(stackInterfaces, stackStaticRoutes, stackDHCPRoutes, rest) ==
            [trace |-> stackInterfaces.trace \o stackStaticRoutes.trace
                           \o stackDHCPRoutes.trace \o rest.trace,
             routes |-> Appended(stackInterfaces) \o Appended(stackStaticRoutes)
                            \o Appended(stackDHCPRoutes) \o rest.routes]
    IN  IF k > Len(stacks)
        THEN [trace |-> <<>>, routes |-> <<>>]
        ELSE Combined(
                 getSwitchStackRoutingInterfaces(c, networkID, stacks[k].id, replies[k].interfaces),
                 getSwitchStackStaticRoutes(c, networkID, stacks[k].id, replies[k].staticRoutes),
                 getSwitchStackDHCPRoutes(c, networkID, stacks[k].id, replies[k].dhcp),
                 stackLoop(c, networkID, stacks, replies, k + 1))

getNetworkSwitchStackRoutes(c, networkID, w) ==
    LET Looped(l) ==
            LET Combined(loop) ==
                    [trace |-> l.trace \o loop.trace, routes |-> loop.routes, err |-> NilErr]
            IN  IF l.err # NilErr
                THEN [trace |-> l.trace, routes |-> <<>>, err |-> NilErr]
                ELSE Combined(stackLoop(c, networkID, l.stacks, w.stack, 1))
    IN  Looped(getNetworkSwitchStacks(c, networkID, w.stacks))

getNetworkRoutesVlansFirst(c, networkID, w) ==
    LET Combined(staticRoutes, vpnRoutes, vlanRoutes) ==
            [trace |-> vlanRoutes.trace \o staticRoutes.trace \o vpnRoutes.trace,
             routes |-> Appended(vlanRoutes) \o Appended(staticRoutes) \o Appended(vpnRoutes),
             err |-> NilErr]
    IN  Combined(getNetworkStaticRoutes(c, networkID, w.static),
                 getNetworkVPNRoutes(c, networkID, w.vpn),
                 getNetworkVLANRoutes(c, networkID, w.vlans))

\* getNetworkRoutes: the five sub-fetches in turn, none of them fatal
getNetworkRoutes(c, networkID, w) ==
    LET Combined(staticRoutes, vpnRoutes, vlanRoutes, switchRoutes, switchStackRoutes) ==
            [trace |-> staticRoutes.trace \o vpnRoutes.trace \o vlanRoutes.trace
                           \o switchRoutes.trace \o switchStackRoutes.trace,
             routes |-> Appended(staticRoutes) \o Appended(vpnRoutes) \o Appended(vlanRoutes)
                            \o Appended(switchRoutes) \o Appended(switchStackRoutes),
             err |-> NilErr]
    IN  Combined(getNetworkStaticRoutes(c, networkID, w.static),
                 getNetworkVPNRoutes(c, networkID, w.vpn),
                 getNetworkVLANRoutes(c, networkID, w.vlans),
                 getNetworkSwitchRoutes(c, networkID, w),
                 getNetworkSwitchStackRoutes(c, networkID, w))

----------------------------------------------------------------------------
(* Specification of the route fetchers: one getNetworkRoutes at a time     *)
(* against a network whose endpoints are up or failing                     *)

\* the bodies the endpoints serve: those of TestClient_getNetworkRoutes, and
\* bodies with unnamed, repeated, unused and subnet-less entries
Variants == {"test", "mixed"}

\* the network of the test has no stack
VariantsWith(n) == IF n = 0 THEN Variants ELSE {"mixed"}

StaticBody(v) ==
    IF v = "test"
    THEN <<Route(Lit("route1"), Lit("Test Route"), "192.168.1.0/24", "192.168.1.1", TRUE)>>
    ELSE <<Route(Lit("r1"), Lit("Dup"), "10.1.0.0/16", "10.0.0.1", TRUE),
           Route(Lit("r1"), Lit("Dup"), "10.1.0.0/16", "10.0.0.1", TRUE),
           Route(Lit("r2"), Lit(""), "10.1.0.0/16", "10.0.0.1", FALSE)>>

VpnBody(v) ==
    IF v = "test"
    THEN <<[localSubnet |-> "10.0.0.0/8", useVpn |-> TRUE]>>
    ELSE <<[localSubnet |-> "10.2.0.0/16", useVpn |-> FALSE],
           [localSubnet |-> "10.1.0.0/16", useVpn |-> TRUE]>>

VlansBody(v) ==
    IF v = "test"
    THEN <<[id |-> 1, name |-> "Default", applianceIp |-> "172.16.1.1",
            subnet |-> "172.16.1.0/24"]>>
    ELSE <<[id |-> 2, name |-> "Empty", applianceIp |-> "", subnet |-> ""],
           [id |-> 3, name |-> "Users", applianceIp |-> "10.3.0.1",
            subnet |-> "10.3.0.0/24"]>>

SwitchInterfacesBody(v) ==
    IF v = "test"
    THEN <<>>
    ELSE <<[interfaceId |-> "i1", name |-> "Core", subnet |-> "10.4.0.0/24",
            interfaceIp |-> "10.4.0.1"],
           [interfaceId |-> "i2", name |-> "NoNet", subnet |-> "", interfaceIp |-> ""]>>

SwitchStaticBody(v) ==
    IF v = "test"
    THEN <<>>
    ELSE <<Route(Lit("sr1"), Lit(""), "10.1.0.0/16", "10.4.0.254", FALSE)>>

StackId(k) == CASE k = 1 -> "s1" [] k = 2 -> "s2" [] k = 3 -> "s3" [] OTHER -> "sN"
StacksBody(n) == [k \in 1..n |-> [id |-> StackId(k), name |-> "Stack"]]

StackInterfacesBody ==
    <<[interfaceId |-> "si1", name |-> "Down", subnet |-> "", interfaceIp |-> ""],
      [interfaceId |-> "si2", name |-> "Up", subnet |-> "10.5.0.0/24",
       interfaceIp |-> "10.5.0.1"]>>
StackStaticBody ==
    <<[staticRouteId |-> "ss1", name |-> "", subnet |-> "10.6.0.0/16",
       nextHopIp |-> "10.5.0.254", preferOverOspfRoutesEnabled |-> FALSE]>>
StackDhcpBody == <<"", "10.9.9.9">>

NetworkSources == {"static", "vpn", "vlans", "switchInterfaces", "switchStatic", "stacks"}
StackSources == {"interfaces", "staticRoutes", "dhcp"}

\* the way the j-th failing endpoint of a network fails
FailKind(base, j) ==
    CASE (base + j) % 3 = 0 -> "transport"
      [] (base + j) % 3 = 1 -> "status"
      [] OTHER -> "decode"

Endpoint(isUp, base, j, body) == IF isUp THEN Serving(body) ELSE Failing(FailKind(base, j))

\* a network: the bodies it serves, the endpoints that are up, its n stacks
World(v, base, up, n, sup) ==
    [static |-> Endpoint(up["static"], base, 0, StaticBody(v)),
     vpn |-> Endpoint(up["vpn"], base, 1, VpnBody(v)),
     vlans |-> Endpoint(up["vlans"], base, 2, VlansBody(v)),
     switchInterfaces |-> Endpoint(up["switchInterfaces"], base, 3, SwitchInterfacesBody(v)),
     switchStatic |-> Endpoint(up["switchStatic"], base, 4, SwitchStaticBody(v)),
     stacks |-> Endpoint(up["stacks"], base, 5, StacksBody(n)),
     stack |-> [k \in 1..n |->
         [interfaces |-> Endpoint(sup[k]["interfaces"], base, k, StackInterfacesBody),
          staticRoutes |-> Endpoint(sup[k]["staticRoutes"], base, k + 1, StackStaticBody),
          dhcp |-> Endpoint(sup[k]["dhcp"], base, k + 2, StackDhcpBody)]]]

\* the endpoints that are up: stacks are only listed when the listing is up
UpSets(n) == {u \in [NetworkSources -> BOOLEAN] : n > 0 => u["stacks"]}
StackUpSets(n) == [1..n -> [StackSources -> BOOLEAN]]

RouteNetworkIds == {<<"A">>}

\* one call of getNetworkRoutes; the environment decides the network
GetNetworkRoutes(networkID) ==
    /\ Idle
    /\ \E n \in 0..MaxStacks :
       \E v \in VariantsWith(n), base \in 0..2, up \in UpSets(n), sup \in StackUpSets(n) :
           LET Returns(w, r) ==
                   /\ trace' = r.trace
                   /\ result' = [routes |-> r.routes, err |-> r.err]
                   /\ call' = [op |-> "getNetworkRoutes", networkID |-> networkID,
                               world |-> w]
               Calls(w) == Returns(w, getNetworkRoutes(client, networkID, w))
           IN  Calls(World(v, base, up, n, sup))
    /\ open' = {}
    /\ pc' = "done"
    /\ UNCHANGED <<client, retryConfig, pureVars>>

NextRoutes ==
    \/ \E networkID \in RouteNetworkIds : GetNetworkRoutes(networkID)
    \/ Return

SpecRoutes == Init /\ [][NextRoutes]_vars

----------------------------------------------------------------------------
(* Device fetcher and the per-organization aggregators *)

\* the Device struct: the fields the program reads (Status is a string of
\* characters, compared ignoring case)
Device(serial, name, networkId, status) ==
    [Serial |-> serial, Name |-> name, NetworkID |-> networkId, Status |-> status]

getNetworkDevices(c, networkID, reply) ==
    LET Decoded(f) ==
            IF f.err # NilErr
            THEN [trace |-> f.trace, devices |-> <<>>, err |-> f.err]
            ELSE IF ~f.decodes
            THEN [trace |-> f.trace, devices |-> <<>>,
                  err |-> Wrap("failed to decode devices response: %w", ErrJSON)]
            ELSE [trace |-> f.trace, devices |-> f.body, err |-> NilErr]
    IN  Decoded(Fetched(c, <<"/networks/", networkID, "/devices">>, reply))

\* the loop of GetAllNetworkRoutes from network k on: one entry for every
\* network, with no routes when getNetworkRoutes returns an error
RECURSIVE allNetworkRoutesLoop(_, _, _, _)
allNetworkRoutesLoop(c, networks, worlds, k) ==
    LET Combined(networkRoutes, rest) ==
            [trace |-> networkRoutes.trace \o rest.trace,
             entries |-> <<[Network |-> networks[k],
                            Routes |-> IF networkRoutes.err # NilErr
                                       THEN <<>>
                                       ELSE networkRoutes.routes]>>
                         \o rest.entries]
    IN  IF k > Len(networks)
        THEN [trace |-> <<>>, entries |-> <<>>]
        ELSE Combined(getNetworkRoutes(c, networks[k].id, worlds[k]),
                      allNetworkRoutesLoop(c, networks, worlds, k + 1))

\* GetAllNetworkRoutes; worlds[k] is the k-th listed network
GetAllNetworkRoutes(c, organizationID, urlOK, reply, worlds) ==
    LET Listed(l) ==
            LET Combined(loop) ==
                    [trace |-> l.trace \o loop.trace, entries |-> loop.entries,
                     err |-> NilErr]
            IN  IF l.err # NilErr
                THEN [trace |-> l.trace, entries |-> <<>>,
                      err |-> Wrap("failed to get networks for organization %s: %w", l.err)]
                ELSE Combined(allNetworkRoutesLoop(c, l.list, worlds, 1))
    IN  Listed(getOrganizationNetworks(c, organizationID, urlOK, reply))

RECURSIVE allNetworkDevicesLoopDropFailed(_, _, _, _)
allNetworkDevicesLoopDropFailed(c, networks, replies, k) ==
    LET Combined(networkDevices, rest) ==
            [trace |-> networkDevices.trace \o rest.trace,
             entries |-> (IF networkDevices.err # NilErr
                          THEN <<>>
                          ELSE <<[Network |-> networks[k],
                                  Devices |-> networkDevices.devices]>>)
                         \o rest.entries]
    IN  IF k > Len(networks)
        THEN [trace |-> <<>>, entries |-> <<>>]
        ELSE Combined(getNetworkDevices(c, networks[k].id, replies[k]),
                      allNetworkDevicesLoopDropFailed(c, networks, replies, k + 1))

\* the loop of GetAllNetworkDevices from network k on: one entry for every
\* network, with no devices when getNetworkDevices returns an error
RECURSIVE allNetworkDevicesLoop(_, _, _, _)
allNetworkDevicesLoop(c, networks, replies, k) ==
    LET Combined(networkDevices, rest) ==
            [trace |-> networkDevices.trace \o rest.trace,
             entries |-> <<[Network |-> networks[k],
                            Devices |-> IF networkDevices.err # NilErr
                                        THEN <<>>
                                        ELSE networkDevices.devices]>>
                         \o rest.entries]
    IN  IF k > Len(networks)
        THEN [trace |-> <<>>, entries |-> <<>>]
        ELSE Combined(getNetworkDevices(c, networks[k].id, replies[k]),
                      allNetworkDevicesLoop(c, networks, replies, k + 1))

\* GetAllNetworkDevices; replies[k] is the devices endpoint of the k-th
\* listed network
GetAllNetworkDevices(c, organizationID, urlOK, reply, replies) ==
    LET Listed(l) ==
            LET Combined(loop) ==
                    [trace |-> l.trace \o loop.trace, entries |-> loop.entries,
                     err |-> NilErr]
            IN  IF l.err # NilErr
                THEN [trace |-> l.trace, entries |-> <<>>,
                      err |-> Wrap("failed to get networks for organization %s: %w", l.err)]
                ELSE Combined(allNetworkDevicesLoop(c, l.list, replies, 1))
    IN  Listed(getOrganizationNetworks(c, organizationID, urlOK, reply))

\* what the endpoints of the network with an id reply: those of its first
\* occurrence in the listing
ServerOf(list, servers, id) ==
    servers[CHOOSE k \in DOMAIN list :
                list[k].id = id /\ \A j \in 1..(k - 1) : list[j].id # id]

\* the loop of GetRoutes over all networks: a network whose fetch returns
\* an error is skipped
RECURSIVE routesLoop(_, _, _, _)
routesLoop(c, networks, worlds, k) ==
    LET Combined(networkRoutes, rest) ==
            [trace |-> networkRoutes.trace \o rest.trace,
             routes |-> Appended(networkRoutes) \o rest.routes]
    IN  IF k > Len(networks)
        THEN [trace |-> <<>>, routes |-> <<>>]
        ELSE Combined(getNetworkRoutes(c, networks[k].id, worlds[k]),
                      routesLoop(c, networks, worlds, k + 1))

\* GetRoutes: with a network identifier, the routes of the network it
\* resolves to; without, the routes of every network of the organization
GetRoutes(c, organizationID, networkIdentifier, urlOK, reply, worlds) ==
    LET ResolvedTo(r) ==
            LET Got(networkRoutes) ==
                    IF networkRoutes.err # NilErr
                    THEN [trace |-> r.trace \o networkRoutes.trace, routes |-> <<>>,
                          err |-> Wrap("failed to get routes for network %s: %w",
                                       networkRoutes.err)]
                    ELSE [trace |-> r.trace \o networkRoutes.trace,
                          routes |-> networkRoutes.routes, err |-> NilErr]
            IN  IF r.err # NilErr
                THEN [trace |-> r.trace, routes |-> <<>>, err |-> r.err]
                ELSE Got(getNetworkRoutes(c, r.id, ServerOf(reply.listing, worlds, r.id)))
        Listed(l) ==
            LET Combined(loop) ==
                    [trace |-> l.trace \o loop.trace, routes |-> loop.routes, err |-> NilErr]
            IN  IF l.err # NilErr
                THEN [trace |-> l.trace, routes |-> <<>>,
                      err |-> Wrap("failed to get networks for organization %s: %w", l.err)]
                ELSE Combined(routesLoop(c, l.list, worlds, 1))
    IN  IF networkIdentifier # EmptyString
        THEN ResolvedTo(ResolveNetworkID(c, organizationID, networkIdentifier, urlOK, reply))
        ELSE Listed(getOrganizationNetworks(c, organizationID, urlOK, reply))

\* the loop of GetDevices over all networks: a network whose fetch returns
\* an error is skipped
RECURSIVE devicesLoop(_, _, _, _)
devicesLoop(c, networks, replies, k) ==
    LET Combined(networkDevices, rest) ==
            [trace |-> networkDevices.trace \o rest.trace,
             devices |-> (IF networkDevices.err # NilErr
                          THEN <<>>
                          ELSE networkDevices.devices) \o rest.devices]
    IN  IF k > Len(networks)
        THEN [trace |-> <<>>, devices |-> <<>>]
        ELSE Combined(getNetworkDevices(c, networks[k].id, replies[k]),
                      devicesLoop(c, networks, replies, k + 1))

GetDevicesSwallowing(c, organizationID, networkIdentifier, urlOK, reply, replies) ==
    LET ResolvedTo(r) ==
            LET Got(networkDevices) ==
                    [trace |-> r.trace \o networkDevices.trace,
                     devices |-> networkDevices.devices, err |-> NilErr]
            IN  IF r.err # NilErr
                THEN [trace |-> r.trace, devices |-> <<>>, err |-> r.err]
                ELSE Got(getNetworkDevices(c, r.id, ServerOf(reply.listing, replies, r.id)))
    IN  IF networkIdentifier # EmptyString
        THEN ResolvedTo(ResolveNetworkID(c, organizationID, networkIdentifier, urlOK, reply))
        ELSE [trace |-> <<>>, devices |-> <<>>, err |-> NilErr]

\* GetDevices: with a network identifier, the devices of the network it
\* resolves to; without, the devices of every network of the organization
GetDevices(c, organizationID, networkIdentifier, urlOK, reply, replies) ==
    LET ResolvedTo(r) ==
            LET Got(networkDevices) ==
                    IF networkDevices.err # NilErr
                    THEN [trace |-> r.trace \o networkDevices.trace, devices |-> <<>>,
                          err |-> Wrap("failed to get devices for network %s: %w",
                                       networkDevices.err)]
                    ELSE [trace |-> r.trace \o networkDevices.trace,
                          devices |-> networkDevices.devices, err |-> NilErr]
            IN  IF r.err # NilErr
                THEN [trace |-> r.trace, devices |-> <<>>, err |-> r.err]
                ELSE Got(getNetworkDevices(c, r.id, ServerOf(reply.listing, replies, r.id)))
        Listed(l) ==
            LET Combined(loop) ==
                    [trace |-> l.trace \o loop.trace, devices |-> loop.devices,
                     err |-> NilErr]
            IN  IF l.err # NilErr
                THEN [trace |-> l.trace, devices |-> <<>>,
                      err |-> Wrap("failed to get networks for organization %s: %w", l.err)]
                ELSE Combined(devicesLoop(c, l.list, replies, 1))
    IN  IF networkIdentifier # EmptyString
        THEN ResolvedTo(ResolveNetworkID(c, organizationID, networkIdentifier, urlOK, reply))
        ELSE Listed(getOrganizationNetworks(c, organizationID, urlOK, reply))

\* the License struct: the fields the program reads
License(id, networkId) == [ID |-> id, NetworkID |-> networkId]

\* GetLicenses: one request, the body closed on return
GetLicenses(c, organizationID, reply) ==
    LET Decoded(f) ==
            IF f.err # NilErr
            THEN [trace |-> f.trace, licenses |-> <<>>,
                  err |-> Wrap("failed to fetch licenses: %w", f.err)]
            ELSE IF ~f.decodes
            THEN [trace |-> f.trace, licenses |-> <<>>,
                  err |-> Wrap("failed to decode licenses response: %w", ErrJSON)]
            ELSE [trace |-> f.trace, licenses |-> f.body, err |-> NilErr]
    IN  Decoded(Fetched(c, <<"/organizations/", organizationID, "/licenses">>, reply))

licenseForNetworkSpecificOnly(license, network) ==
    license.NetworkID = network.id

\* the test of the filter of GetAllNetworkLicenses
licenseForNetwork(license, network) ==
    license.NetworkID = network.id \/ license.NetworkID = EmptyString

RECURSIVE Repeated(_, _)
Repeated(tr, n) == IF n = 0 THEN <<>> ELSE tr \o Repeated(tr, n - 1)

GetAllNetworkLicensesPerNetwork(c, organizationID, urlOK, reply, licensesReply) ==
    LET Listed(l) ==
            LET Entries(fetched) ==
                    LET ForNetwork(network) ==
                            LET Relevant(license) == licenseForNetwork(license, network)
                            IN  SelectSeq(fetched.licenses, Relevant)
                    IN  [trace |-> l.trace \o Repeated(fetched.trace, Len(l.list)),
                         entries |-> [k \in DOMAIN l.list |->
                                          [Network |-> l.list[k],
                                           Licenses |-> ForNetwork(l.list[k])]],
                         err |-> NilErr]
            IN  IF l.err # NilErr
                THEN [trace |-> l.trace, entries |-> <<>>,
                      err |-> Wrap("failed to get networks for organization %s: %w", l.err)]
                ELSE Entries(GetLicenses(c, organizationID, licensesReply))
    IN  Listed(getOrganizationNetworks(c, organizationID, urlOK, reply))

\* GetAllNetworkLicenses: one entry for every listed network, with the
\* licenses of the organization that pass the filter, in their order; no
\* licenses at all when GetLicenses fails
GetAllNetworkLicenses(c, organizationID, urlOK, reply, licensesReply) ==
    LET Listed(l) ==
            LET Entries(fetched) ==
                    LET orgLicenses ==
                            IF fetched.err # NilErr THEN <<>> ELSE fetched.licenses
                        ForNetwork(network) ==
                            LET Relevant(license) == licenseForNetwork(license, network)
                            IN  SelectSeq(orgLicenses, Relevant)
                    IN  [trace |-> l.trace \o fetched.trace,
                         entries |-> [k \in DOMAIN l.list |->
                                          [Network |-> l.list[k],
                                           Licenses |-> ForNetwork(l.list[k])]],
                         err |-> NilErr]
            IN  IF l.err # NilErr
                THEN [trace |-> l.trace, entries |-> <<>>,
                      err |-> Wrap("failed to get networks for organization %s: %w", l.err)]
                ELSE Entries(GetLicenses(c, organizationID, licensesReply))
    IN  Listed(getOrganizationNetworks(c, organizationID, urlOK, reply))

----------------------------------------------------------------------------
(* Specification of the aggregators of one organization: one call at a     *)
(* time against an organization whose endpoints are up or failing          *)

\* largest number of networks an organization lists
MaxNetworks == 2

\* the networks an organization lists, in any order and with repetitions
ListedNetworks ==
    {[id |-> <<"A">>, name |-> <<"X">>], [id |-> <<"X">>, name |-> <<"Y", "o">>]}
NetworkListings == UNION {[1..n -> ListedNetworks] : n \in 0..MaxNetworks}

\* what the network listing of the organization replies
ListingReplies ==
    {Failing(kind) : kind \in FailKinds} \cup {Serving(l) : l \in NetworkListings}

AllUp == [src \in NetworkSources |-> TRUE]
AllDown == [src \in NetworkSources |-> FALSE]

\* the networks behind a listing: the network of the test, a network none
\* of whose endpoints answers, a network with a switch stack
RouteWorlds ==
    {World("test", 0, AllUp, 0, <<>>),
     World("mixed", 0, AllDown, 0, <<>>),
     World("mixed", 1, AllUp, 1, <<[src \in StackSources |-> TRUE]>>)}

StatusOnline == <<"o", "n", "l", "i", "n", "e">>
StatusOffline == <<"o", "f", "f", "l", "i", "n", "e">>
StatusAlerting == <<"A", "l", "e", "r", "t", "i", "n", "g">>

DevicesBody ==
    <<Device("Q2XX-1", "ap-1", "N_1", StatusOffline),
      Device("Q2XX-2", "sw-1", "N_1", StatusOnline),
      Device("Q2XX-3", "mx-1", "N_1", StatusAlerting)>>

\* what the devices endpoint of a network replies
DeviceReplies ==
    {Failing(kind) : kind \in FailKinds} \cup {Serving(<<>>), Serving(DevicesBody)}

\* one call of GetAllNetworkRoutes
AllNetworkRoutes(organizationID) ==
    /\ Idle
    /\ \E urlOK \in BOOLEAN, reply \in ListingReplies :
       \E worlds \in [DOMAIN reply.listing -> RouteWorlds] :
           /\ urlOK \/ reply = Failing("status")
           /\ LET Returns(r) ==
                      /\ trace' = r.trace
                      /\ result' = [entries |-> r.entries, err |-> r.err]
              IN  Returns(GetAllNetworkRoutes(client, organizationID, urlOK, reply, worlds))
           /\ call' = [op |-> "GetAllNetworkRoutes", organizationID |-> organizationID,
                       urlOK |-> urlOK, reply |-> reply, worlds |-> worlds]
    /\ open' = {}
    /\ pc' = "done"
    /\ UNCHANGED <<client, retryConfig, pureVars>>

\* one call of GetAllNetworkDevices
AllNetworkDevices(organizationID) ==
    /\ Idle
    /\ \E urlOK \in BOOLEAN, reply \in ListingReplies :
       \E replies \in [DOMAIN reply.listing -> DeviceReplies] :
           /\ urlOK \/ reply = Failing("status")
           /\ LET Returns(r) ==
                      /\ trace' = r.trace
                      /\ result' = [entries |-> r.entries, err |-> r.err]
              IN  Returns(GetAllNetworkDevices(client, organizationID, urlOK, reply, replies))
           /\ call' = [op |-> "GetAllNetworkDevices", organizationID |-> organizationID,
                       urlOK |-> urlOK, reply |-> reply, replies |-> replies]
    /\ open' = {}
    /\ pc' = "done"
    /\ UNCHANGED <<client, retryConfig, pureVars>>

\* the network tokens a user passes: none, an id, a name, a name in another
\* case, an unknown one
NetworkTokens == {EmptyString, <<"A">>, <<"X">>, <<"x">>, <<"Y", "O">>, <<"Q">>}

\* one call of GetRoutes
Routes(organizationID, token) ==
    /\ Idle
    /\ \E urlOK \in BOOLEAN, reply \in ListingReplies :
       \E worlds \in [DOMAIN reply.listing -> RouteWorlds] :
           /\ urlOK \/ reply = Failing("status")
           /\ LET Returns(r) ==
                      /\ trace' = r.trace
                      /\ result' = [records |-> r.routes, err |-> r.err]
              IN  Returns(GetRoutes(client, organizationID, token, urlOK, reply, worlds))
           /\ call' = [op |-> "GetRoutes", organizationID |-> organizationID,
                       token |-> token, urlOK |-> urlOK, reply |-> reply,
                       worlds |-> worlds]
    /\ open' = {}
    /\ pc' = "done"
    /\ UNCHANGED <<client, retryConfig, pureVars>>

\* one call of GetDevices
Devices(organizationID, token) ==
    /\ Idle
    /\ \E urlOK \in BOOLEAN, reply \in ListingReplies :
       \E replies \in [DOMAIN reply.listing -> DeviceReplies] :
           /\ urlOK \/ reply = Failing("status")
           /\ LET Returns(r) ==
                      /\ trace' = r.trace
                      /\ result' = [records |-> r.devices, err |-> r.err]
              IN  Returns(GetDevices(client, organizationID, token, urlOK, reply, replies))
           /\ call' = [op |-> "GetDevices", organizationID |-> organizationID,
                       token |-> token, urlOK |-> urlOK, reply |-> reply,
                       replies |-> replies]
    /\ open' = {}
    /\ pc' = "done"
    /\ UNCHANGED <<client, retryConfig, pureVars>>

\* largest number of licenses of an organization
MaxLicenses == 2

\* the networkId of a license: none, that of a network the listings have,
\* that of a network they have not
LicenseNetworkIds == {EmptyString, <<"A">>, <<"X">>, <<"Q">>}

LicensesBodies ==
    UNION {{[i \in 1..n |-> License(<<"L", Itoa(i)>>, ids[i])] :
                ids \in [1..n -> LicenseNetworkIds]} : n \in 0..MaxLicenses}

\* what the licenses endpoint of the organization replies
LicensesReplies ==
    {Failing(kind) : kind \in FailKinds} \cup {Serving(b) : b \in LicensesBodies}

\* one call of GetAllNetworkLicenses
AllNetworkLicenses(organizationID) ==
    /\ Idle
    /\ \E urlOK \in BOOLEAN, reply \in ListingReplies, licensesReply \in LicensesReplies :
           /\ urlOK \/ reply = Failing("status")
           /\ LET Returns(r) ==
                      /\ trace' = r.trace
                      /\ result' = [entries |-> r.entries, err |-> r.err]
              IN  Returns(GetAllNetworkLicenses(client, organizationID, urlOK, reply,
                                                licensesReply))
           /\ call' = [op |-> "GetAllNetworkLicenses", organizationID |-> organizationID,
                       urlOK |-> urlOK, reply |-> reply, licensesReply |-> licensesReply]
    /\ open' = {}
    /\ pc' = "done"
    /\ UNCHANGED <<client, retryConfig, pureVars>>

NextAggregate ==
    \/ \E organizationID \in OrgIds : AllNetworkRoutes(organizationID)
    \/ \E organizationID \in OrgIds : AllNetworkDevices(organizationID)
    \/ \E organizationID \in OrgIds, token \in NetworkTokens : Routes(organizationID, token)
    \/ \E organizationID \in OrgIds, token \in NetworkTokens : Devices(organizationID, token)
    \/ \E organizationID \in OrgIds : AllNetworkLicenses(organizationID)
    \/ Return

SpecAggregate == Init /\ [][NextAggregate]_vars

----------------------------------------------------------------------------
(* Command handlers of main.go: the consolidated output of --all *)

\* GetOrganizationNetworks: the exported getOrganizationNetworks
GetOrganizationNetworks(c, organizationID, reply) ==
    getOrganizationNetworks(c, organizationID, TRUE, reply)

\* the statuses isDeviceDown lists
DownStatuses ==
    {<<"o", "f", "f", "l", "i", "n", "e">>,
     <<"a", "l", "e", "r", "t", "i", "n", "g">>,
     <<"d", "o", "r", "m", "a", "n", "t">>,
     <<"d", "o", "w", "n">>,
     <<"u", "n", "r", "e", "a", "c", "h", "a", "b", "l", "e">>,
     <<"d", "i", "s", "c", "o", "n", "n", "e", "c", "t", "e", "d">>}

isDeviceDownCaseSensitive(status) == status \in DownStatuses

isDeviceDownOfflineOnly(status) == ToLower(status) = <<"o", "f", "f", "l", "i", "n", "e">>

isDeviceDown(status) == ToLower(status) \in DownStatuses

DeviceIsDown(device) == isDeviceDown(device.Status)

\* the statuses isDeviceAlerting lists
AlertingStatuses == {<<"a", "l", "e", "r", "t", "i", "n", "g">>}

isDeviceAlerting(status) == ToLower(status) \in AlertingStatuses

DeviceIsAlerting(device) == isDeviceAlerting(device.Status)

\* GetDownDevices: the devices of GetDevices whose status is a down status
GetDownDevices(c, organizationID, networkIdentifier, urlOK, reply, replies) ==
    LET Filtered(allDevices) ==
            IF allDevices.err # NilErr
            THEN [trace |-> allDevices.trace, devices |-> <<>>, err |-> allDevices.err]
            ELSE [trace |-> allDevices.trace,
                  devices |-> SelectSeq(allDevices.devices, DeviceIsDown),
                  err |-> NilErr]
    IN  Filtered(GetDevices(c, organizationID, networkIdentifier, urlOK, reply, replies))

\* the DeviceStatus struct of the organization-wide statuses endpoint
DeviceStatus(serial, status) == [Serial |-> serial, Status |-> status]

\* getOrganizationDeviceStatuses: one request, the body closed on return
getOrganizationDeviceStatuses(c, organizationID, reply) ==
    LET Decoded(f) ==
            IF f.err # NilErr
            THEN [trace |-> f.trace, statuses |-> <<>>, err |-> f.err]
            ELSE IF ~f.decodes
            THEN [trace |-> f.trace, statuses |-> <<>>,
                  err |-> Wrap("failed to decode device statuses: %w", ErrJSON)]
            ELSE [trace |-> f.trace, statuses |-> f.body, err |-> NilErr]
    IN  Decoded(Fetched(c, <<"/organizations/", organizationID, "/devices/statuses">>,
                        reply))

\* statusMap: the status of the last entry with a serial
hasStatus(deviceStatuses, serial) ==
    \E i \in DOMAIN deviceStatuses : deviceStatuses[i].Serial = serial
actualStatus(deviceStatuses, serial) ==
    deviceStatuses[CHOOSE i \in DOMAIN deviceStatuses :
                       /\ deviceStatuses[i].Serial = serial
                       /\ \A j \in DOMAIN deviceStatuses :
                              j > i => deviceStatuses[j].Serial # serial].Status

GetAlertingDevicesNoFallback(c, organizationID, networkIdentifier, urlOK, reply, replies, statusesReply) ==
    LET Got(allDevices) ==
            LET Reported(deviceStatuses) ==
                    IF deviceStatuses.err # NilErr
                    THEN [trace |-> allDevices.trace \o deviceStatuses.trace,
                          devices |-> <<>>, err |-> NilErr]
                    ELSE [trace |-> allDevices.trace \o deviceStatuses.trace,
                          devices |-> SelectSeq(allDevices.devices, DeviceIsAlerting),
                          err |-> NilErr]
            IN  IF allDevices.err # NilErr
                THEN [trace |-> allDevices.trace, devices |-> <<>>, err |-> allDevices.err]
                ELSE Reported(getOrganizationDeviceStatuses(c, organizationID,
                                                            statusesReply))
    IN  Got(GetDevices(c, organizationID, networkIdentifier, urlOK, reply, replies))

\* GetAlertingDevices: the devices of GetDevices that are alerting, by the
\* status of the organization-wide statuses when that call succeeds (the
\* returned device carries it), by their own status when it fails
GetAlertingDevices(c, organizationID, networkIdentifier, urlOK, reply, replies, statusesReply) ==
    LET Got(allDevices) ==
            LET Reported(deviceStatuses) ==
                    LET Updated(device) ==
                            IF hasStatus(deviceStatuses.statuses, device.Serial)
                            THEN [device EXCEPT
                                      !.Status = actualStatus(deviceStatuses.statuses,
                                                              device.Serial)]
                            ELSE device
                    IN  IF deviceStatuses.err # NilErr
                        THEN [trace |-> allDevices.trace \o deviceStatuses.trace,
                              devices |-> SelectSeq(allDevices.devices, DeviceIsAlerting),
                              err |-> NilErr]
                        ELSE [trace |-> allDevices.trace \o deviceStatuses.trace,
                              devices |->
                                  SelectSeq([i \in DOMAIN allDevices.devices |->
                                                 Updated(allDevices.devices[i])],
                                            DeviceIsAlerting),
                              err |-> NilErr]
            IN  IF allDevices.err # NilErr
                THEN [trace |-> allDevices.trace, devices |-> <<>>, err |-> allDevices.err]
                ELSE Reported(getOrganizationDeviceStatuses(c, organizationID,
                                                            statusesReply))
    IN  Got(GetDevices(c, organizationID, networkIdentifier, urlOK, reply, replies))

\* the records of the consolidated output
RouteWithNetwork(route, networkId, networkName, organization) ==
    [Route |-> route, NetworkID |-> networkId, NetworkName |-> networkName,
     Organization |-> organization]
DeviceWithNetwork(device, networkName, organization) ==
    [Device |-> device, NetworkName |-> networkName, Organization |-> organization]

\* a slog.Error of a handler: its message and the identifier it names
Logged(msg, id) == [msg |-> msg, id |-> id]

RECURSIVE routesWithNetworkLastFirst(_, _, _)
routesWithNetworkLastFirst(networkRoutes, organization, k) ==
    IF k > Len(networkRoutes)
    THEN <<>>
    ELSE routesWithNetworkLastFirst(networkRoutes, organization, k + 1)
         \o [i \in DOMAIN networkRoutes[k].Routes |->
                 RouteWithNetwork(networkRoutes[k].Routes[i], networkRoutes[k].Network.id,
                                  networkRoutes[k].Network.name, organization)]

\* the routes of the entries of GetAllNetworkRoutes, in order, each with its
\* network and the organization string of the handler
RECURSIVE routesWithNetwork(_, _, _)
routesWithNetwork(networkRoutes, organization, k) ==
    IF k > Len(networkRoutes)
    THEN <<>>
    ELSE [i \in DOMAIN networkRoutes[k].Routes |->
              RouteWithNetwork(networkRoutes[k].Routes[i], networkRoutes[k].Network.id,
                               networkRoutes[k].Network.name, organization)]
         \o routesWithNetwork(networkRoutes, organization, k + 1)

\* what is behind the API key: the reply of the organization listing and,
\* for every organization, the reply of its network listing and the sites
\* of its networks.  A site is the reply of the network listing when
\* GetDevices asks again to resolve the network (relist), of the devices
\* endpoint and of the route endpoints.
Relisting(behind, k) ==
    IF behind.sites[k].relist THEN behind.listing ELSE Failing("transport")
DeviceServers(behind) == [k \in DOMAIN behind.sites |-> behind.sites[k].devices]
RouteServers(behind) == [k \in DOMAIN behind.sites |-> behind.sites[k].world]

\* writer.WriteTo / writer.WriteToFile of the handlers
StdoutFiles == {"", "-"}
Written(cfg, writeOK, r) ==
    IF writeOK
    THEN [trace |-> r.trace, records |-> r.records, written |-> TRUE,
          logged |-> r.logged, err |-> NilErr]
    ELSE [trace |-> r.trace, records |-> r.records, written |-> FALSE,
          logged |-> r.logged,
          err |-> IF cfg.OutputFile \in StdoutFiles
                  THEN Wrap("failed to write output to stdout: %w",
                            [fmt |-> "write error", args |-> <<>>])
                  ELSE Wrap("failed to write output to file: %w",
                            [fmt |-> "write error", args |-> <<>>])]
Failed(requests, logged, err) ==
    [trace |-> requests, records |-> <<>>, written |-> FALSE, logged |-> logged,
     err |-> err]

\* the loop of infoAllNetworkRoutesConsolidated over the organizations
RECURSIVE routesOrgsLoop(_, _, _, _)
routesOrgsLoop(c, organizations, cloud, k) ==
    LET Combined(networkRoutes, rest) ==
            IF networkRoutes.err # NilErr
            THEN [trace |-> networkRoutes.trace \o rest.trace,
                  records |-> rest.records,
                  logged |-> <<Logged("Failed to get routes for organization",
                                      organizations[k].name)>> \o rest.logged]
            ELSE [trace |-> networkRoutes.trace \o rest.trace,
                  records |-> routesWithNetwork(networkRoutes.entries,
                                                organizations[k].name, 1)
                              \o rest.records,
                  logged |-> rest.logged]
    IN  IF k > Len(organizations)
        THEN [trace |-> <<>>, records |-> <<>>, logged |-> <<>>]
        ELSE Combined(GetAllNetworkRoutes(c, organizations[k].id, TRUE,
                                          cloud.behind[k].listing,
                                          RouteServers(cloud.behind[k])),
                      routesOrgsLoop(c, organizations, cloud, k + 1))

\* the organization of the cloud with an id
Behind(cloud, organizationID) ==
    cloud.behind[CHOOSE k \in DOMAIN cloud.behind : cloud.ids[k] = organizationID]

infoAllNetworkRoutesConsolidated(c, cfg, cloud, writeOK) ==
    LET Scoped(networkRoutes) ==
            IF networkRoutes.err # NilErr
            THEN Failed(networkRoutes.trace, <<>>,
                        Wrap("failed to fetch network routes: %w", networkRoutes.err))
            ELSE Written(cfg, writeOK,
                         [trace |-> networkRoutes.trace,
                          records |-> routesWithNetwork(networkRoutes.entries,
                                                        cfg.Organization, 1),
                          logged |-> <<>>])
        All(organizations) ==
            LET Collected(loop) ==
                    Written(cfg, writeOK,
                            [trace |-> organizations.trace \o loop.trace,
                             records |-> loop.records, logged |-> loop.logged])
            IN  IF organizations.err # NilErr
                THEN Failed(organizations.trace, <<>>,
                            Wrap("error getting organizations: %w", organizations.err))
                ELSE Collected(routesOrgsLoop(c, organizations.list, cloud, 1))
    IN  IF cfg.Organization # EmptyString
        THEN Scoped(GetAllNetworkRoutes(c, cfg.Organization, TRUE,
                                        Behind(cloud, cfg.Organization).listing,
                                        RouteServers(Behind(cloud, cfg.Organization))))
        ELSE All(GetOrganizations(c, cloud.orgs))

\* the loop of infoAllNetworkDownDevicesConsolidated over the networks of
\* an organization
RECURSIVE downNetworksLoop(_, _, _, _, _)
downNetworksLoop(c, org, networks, behind, k) ==
    LET Combined(downDevices, rest) ==
            IF downDevices.err # NilErr
            THEN [trace |-> downDevices.trace \o rest.trace,
                  records |-> rest.records,
                  logged |-> <<Logged("Failed to get down devices for network",
                                      networks[k].id)>> \o rest.logged]
            ELSE [trace |-> downDevices.trace \o rest.trace,
                  records |-> [i \in DOMAIN downDevices.devices |->
                                   DeviceWithNetwork(downDevices.devices[i],
                                                     networks[k].name, org.name)]
                              \o rest.records,
                  logged |-> rest.logged]
    IN  IF k > Len(networks)
        THEN [trace |-> <<>>, records |-> <<>>, logged |-> <<>>]
        ELSE Combined(GetDownDevices(c, org.id, networks[k].id, TRUE,
                                     Relisting(behind, k), DeviceServers(behind)),
                      downNetworksLoop(c, org, networks, behind, k + 1))

\* its loop over the organizations
RECURSIVE downOrgsLoop(_, _, _, _)
downOrgsLoop(c, orgs, cloud, k) ==
    LET Combined(networks, rest) ==
            LET Joined(loop) ==
                    [trace |-> networks.trace \o loop.trace \o rest.trace,
                     records |-> loop.records \o rest.records,
                     logged |-> loop.logged \o rest.logged]
            IN  IF networks.err # NilErr
                THEN [trace |-> networks.trace \o rest.trace,
                      records |-> rest.records,
                      logged |-> <<Logged("Failed to get networks for organization",
                                          orgs[k].id)>> \o rest.logged]
                ELSE Joined(downNetworksLoop(c, orgs[k], networks.list,
                                             cloud.behind[k], 1))
    IN  IF k > Len(orgs)
        THEN [trace |-> <<>>, records |-> <<>>, logged |-> <<>>]
        ELSE Combined(GetOrganizationNetworks(c, orgs[k].id, cloud.behind[k].listing),
                      downOrgsLoop(c, orgs, cloud, k + 1))

\* infoAllNetworkDownDevicesConsolidated: cfg.Organization is not read
infoAllNetworkDownDevicesConsolidated(c, cfg, cloud, writeOK) ==
    LET All(orgs) ==
            LET Collected(loop) ==
                    Written(cfg, writeOK,
                            [trace |-> orgs.trace \o loop.trace,
                             records |-> loop.records, logged |-> loop.logged])
            IN  IF orgs.err # NilErr
                THEN Failed(orgs.trace, <<>>,
                            Wrap("failed to get organizations: %w", orgs.err))
                ELSE Collected(downOrgsLoop(c, orgs.list, cloud, 1))
    IN  All(GetOrganizations(c, cloud.orgs))

----------------------------------------------------------------------------
(* Specification of the command handlers: one command at a time against    *)
(* the organizations behind the API key                                    *)

\* largest number of organizations behind the API key
MaxOrgs == 2

\* the k-th organization, and the k-th network of organization o
OrgAt(k) == [id |-> <<"O", Itoa(k)>>, name |-> <<"o", "r", "g", Itoa(k)>>]
NetworkAt(o, k) ==
    [id |-> <<"N", Itoa(o), Itoa(k)>>, name |-> <<"n", "e", "t", Itoa(k)>>]

\* the site of the k-th network of an organization: every endpoint
\* answers, or none of its route endpoints does and either its devices
\* endpoint fails (odd k) or the second network listing does (even k)
Site(isUp, k) ==
    [relist |-> isUp \/ k % 2 = 1,
     devices |-> IF isUp \/ k % 2 = 0 THEN Serving(DevicesBody) ELSE Failing("status"),
     world |-> IF isUp
               THEN World("test", 0, AllUp, 0, <<>>)
               ELSE World("mixed", 0, AllDown, 0, <<>>)]

\* an organization: its network listing fails, or lists at most MaxNetworks
\* networks, each with a site that is up, but for one at most
OrgPlans ==
    {[listUp |-> FALSE, ups |-> <<>>]}
    \cup UNION {{[listUp |-> TRUE, ups |-> u] :
                    u \in {v \in [1..m -> BOOLEAN] :
                              \A i, j \in 1..m : (~v[i] /\ ~v[j]) => i = j}} :
                m \in 0..MaxNetworks}

OrgBehind(o, plan) ==
    [listing |-> IF plan.listUp
                 THEN Serving([k \in DOMAIN plan.ups |-> NetworkAt(o, k)])
                 ELSE Failing(IF o % 2 = 1 THEN "status" ELSE "decode"),
     sites |-> [k \in DOMAIN plan.ups |-> Site(plan.ups[k], k)]]

\* how the organization listing answers
OrgListingKinds == {"up", "status", "decode"}

Cloud(kind, plans) ==
    [orgs |-> IF kind = "up"
              THEN Serving([k \in DOMAIN plans |-> OrgAt(k)])
              ELSE Failing(kind),
     ids |-> [k \in DOMAIN plans |-> OrgAt(k).id],
     behind |-> [k \in DOMAIN plans |-> OrgBehind(k, plans[k])]]

\* main creates the client with NewClient(cfg.APIKey)
InitMain ==
    /\ client \in {NewClient(k).client : k \in {"key-1"}}
    /\ retryConfig = DefaultRetryConfig
    /\ pc = "idle"
    /\ call = NoCall
    /\ trace = <<>>
    /\ open = {}
    /\ result = NoResult
    /\ fn = "none"
    /\ arg = <<>>
    /\ ret = <<>>

\* meraki-info route-tables --all: cfg.Organization is empty or the id
\* main resolved it to
InfoAllNetworkRoutesConsolidated ==
    /\ Idle
    /\ \E n \in 0..MaxOrgs :
       \E kind \in OrgListingKinds, plans \in [1..n -> OrgPlans],
          organization \in {EmptyString} \cup {OrgAt(k).id : k \in 1..n},
          outputFile \in {"-", "routes.txt"}, writeOK \in BOOLEAN :
           LET Called(cfg, cloud) ==
                   LET Returns(r) ==
                           /\ trace' = r.trace
                           /\ result' = [records |-> r.records, written |-> r.written,
                                         logged |-> r.logged, err |-> r.err]
                   IN  /\ Returns(infoAllNetworkRoutesConsolidated(client, cfg, cloud, writeOK))
                       /\ call' = [op |-> "infoAllNetworkRoutesConsolidated", cfg |-> cfg,
                                   cloud |-> cloud, writeOK |-> writeOK]
           IN  Called([Organization |-> organization, OutputFile |-> outputFile],
                      Cloud(kind, plans))
    /\ open' = {}
    /\ pc' = "done"
    /\ UNCHANGED <<client, retryConfig, pureVars>>

\* meraki-info down --all with the output on stdout (infoAllNetworkDownDevices
\* calls the consolidated handler for no output file or "-")
InfoAllNetworkDownDevicesConsolidated ==
    /\ Idle
    /\ \E n \in 0..MaxOrgs :
       \E kind \in OrgListingKinds, plans \in [1..n -> OrgPlans],
          organization \in {EmptyString} \cup {OrgAt(k).id : k \in 1..n},
          outputFile \in {"-"}, writeOK \in BOOLEAN :
           LET Called(cfg, cloud) ==
                   LET Returns(r) ==
                           /\ trace' = r.trace
                           /\ result' = [records |-> r.records, written |-> r.written,
                                         logged |-> r.logged, err |-> r.err]
                   IN  /\ Returns(infoAllNetworkDownDevicesConsolidated(client, cfg, cloud, writeOK))
                       /\ call' = [op |-> "infoAllNetworkDownDevicesConsolidated", cfg |-> cfg,
                                   cloud |-> cloud, writeOK |-> writeOK]
           IN  Called([Organization |-> organization, OutputFile |-> outputFile],
                      Cloud(kind, plans))
    /\ open' = {}
    /\ pc' = "done"
    /\ UNCHANGED <<client, retryConfig, pureVars>>

NextMain ==
    \/ InfoAllNetworkRoutesConsolidated
    \/ InfoAllNetworkDownDevicesConsolidated
    \/ Return

SpecMain == InitMain /\ [][NextMain]_vars

----------------------------------------------------------------------------
(* Specification of the device classifiers: GetDownDevices and             *)
(* GetAlertingDevices against one organization, isDeviceDown and           *)
(* isDeviceAlerting on a status                                            *)

\* largest number of devices the devices endpoint of a network lists
MaxDevices == 2

\* the statuses of devices: the six down statuses, some of them in other
\* cases, online, a status that is a prefix of a down status, no status
DeviceStatuses ==
    DownStatuses
    \cup {<<"O", "F", "F", "L", "I", "N", "E">>, StatusAlerting,
          <<"D", "o", "W", "n">>, StatusOnline,
          <<"O", "n", "l", "i", "n", "e">>, <<"o", "f", "f", "l", "i", "n">>,
          EmptyString}

\* the statuses of the devices GetAlertingDevices is called on
OwnStatuses == {StatusAlerting, StatusOnline, StatusOffline, EmptyString}

SerialAt(i) == CASE i = 1 -> "Q-1" [] i = 2 -> "Q-2" [] i = 3 -> "Q-3" [] OTHER -> "Q-N"

ListedDevices(statuses) ==
    UNION {{[i \in 1..n |-> Device(SerialAt(i), "dev", "N_A", st[i])] :
                st \in [1..n -> statuses]} : n \in 0..MaxDevices}

\* what the organization-wide statuses report of a serial: nothing, a
\* status, or two statuses one after the other
ReportKinds ==
    {<<>>, <<StatusAlerting>>, <<StatusOnline>>, <<StatusOnline, ToLower(StatusAlerting)>>,
     <<EmptyString>>}
ReportedSerials == {"Q-1", "Q-2"}

\* the body of the statuses endpoint: the reports of Q-1, of Q-2 and of a
\* device that no network lists
StatusesBody(plan) ==
    [i \in DOMAIN plan["Q-1"] |-> DeviceStatus("Q-1", plan["Q-1"][i])]
    \o <<DeviceStatus("Q-9", StatusAlerting)>>
    \o [i \in DOMAIN plan["Q-2"] |-> DeviceStatus("Q-2", plan["Q-2"][i])]

\* the organization and the token of a call: a network by its id, all the
\* networks of an organization with two, an organization whose network
\* listing fails
DeviceScopes ==
    {[token |-> <<"A">>, reply |-> Serving(<<[id |-> <<"A">>, name |-> <<"X">>]>>)],
     [token |-> EmptyString,
      reply |-> Serving(<<[id |-> <<"A">>, name |-> <<"X">>],
                          [id |-> <<"X">>, name |-> <<"Y", "o">>]>>)],
     [token |-> <<"A">>, reply |-> Failing("status")]}

\* the devices endpoints of the networks of a scope: that of the first
\* network, the second network lists the devices of DevicesBody
DeviceEndpoints(scope, first) ==
    [k \in DOMAIN scope.reply.listing |-> IF k = 1 THEN first ELSE Serving(DevicesBody)]

\* one call of GetDownDevices
DownDevices(organizationID) ==
    /\ Idle
    /\ \E scope \in DeviceScopes :
       \E first \in {Failing("status")}
                    \cup {Serving(b) : b \in ListedDevices(DeviceStatuses)} :
           LET Called(replies) ==
                   LET Returns(r) ==
                           /\ trace' = r.trace
                           /\ result' = [records |-> r.devices, err |-> r.err]
                   IN  /\ Returns(GetDownDevices(client, organizationID, scope.token, TRUE,
                                                 scope.reply, replies))
                       /\ call' = [op |-> "GetDownDevices",
                                   organizationID |-> organizationID,
                                   token |-> scope.token, urlOK |-> TRUE,
                                   reply |-> scope.reply, replies |-> replies]
           IN  Called(DeviceEndpoints(scope, first))
    /\ open' = {}
    /\ pc' = "done"
    /\ UNCHANGED <<client, retryConfig, pureVars>>

\* one call of GetAlertingDevices
AlertingDevices(organizationID) ==
    /\ Idle
    /\ \E scope \in DeviceScopes :
       \E first \in {Failing("status")}
                    \cup {Serving(b) : b \in ListedDevices(OwnStatuses)},
          statusesReply \in {Failing(kind) : kind \in FailKinds}
                            \cup {Serving(StatusesBody(plan)) :
                                      plan \in [ReportedSerials -> ReportKinds]} :
           LET Called(replies) ==
                   LET Returns(r) ==
                           /\ trace' = r.trace
                           /\ result' = [records |-> r.devices, err |-> r.err]
                   IN  /\ Returns(GetAlertingDevices(client, organizationID, scope.token,
                                                     TRUE, scope.reply, replies,
                                                     statusesReply))
                       /\ call' = [op |-> "GetAlertingDevices",
                                   organizationID |-> organizationID,
                                   token |-> scope.token, urlOK |-> TRUE,
                                   reply |-> scope.reply, replies |-> replies,
                                   statusesReply |-> statusesReply]
           IN  Called(DeviceEndpoints(scope, first))
    /\ open' = {}
    /\ pc' = "done"
    /\ UNCHANGED <<client, retryConfig, pureVars>>

\* isDeviceDown and isDeviceAlerting applied to a status
Classify(status) ==
    /\ Idle
    /\ call' = [op |-> "classify", status |-> status]
    /\ result' = [down |-> isDeviceDown(status), alerting |-> isDeviceAlerting(status),
                  err |-> NilErr]
    /\ trace' = <<>>
    /\ open' = {}
    /\ pc' = "done"
    /\ UNCHANGED <<client, retryConfig, pureVars>>

NextDevices ==
    \/ \E organizationID \in OrgIds : DownDevices(organizationID)
    \/ \E organizationID \in OrgIds : AlertingDevices(organizationID)
    \/ \E status \in DeviceStatuses : Classify(status)
    \/ Return

SpecDevices == Init /\ [][NextDevices]_vars

----------------------------------------------------------------------------
(* Properties of the transport (specification Spec) *)

Returned == pc = "done" /\ call.op = "makeRequest"
Attempts == Len(Requests(trace))
Slept == Len(Waits(trace))

RetryableStatus(out) == ~out.err /\ out.status \in {429, 500, 502, 503, 504}
SuccessStatus(out) == ~out.err /\ out.status >= 200 /\ out.status < 300
FatalStatus(out) == ~out.err /\ ~RetryableStatus(out) /\ ~SuccessStatus(out)

\* the error names the count n
ErrorReports(e, n) == \E i \in DOMAIN e.args : e.args[i] = n

\* every wait lies between an attempt and the next attempt
WaitsBetweenAttempts ==
    \A i \in DOMAIN trace :
        IsWait(trace[i]) =>
            /\ i > 1 /\ IsRequest(trace[i - 1])
            /\ i < Len(trace) /\ IsRequest(trace[i + 1])

\* C1: retry exhaustion.  When the server answers every attempt with a
\* retryable status, makeRequest makes exactly MaxRetries + 1 attempts and
\* then returns a nil response and an error that reports that number.
C1_RetryExhaustion ==
    (/\ Returned
     /\ call.urlOK
     /\ retryConfig.MaxRetries + 1 <= ScriptLen
     /\ \A i \in 1..ScriptLen : RetryableStatus(call.script[i]))
    => /\ Attempts = retryConfig.MaxRetries + 1
       /\ result.resp = NilResp
       /\ result.err # NilErr
       /\ ErrorReports(result.err, retryConfig.MaxRetries + 1)

\* C2: retry recovery.  When the server answers the first k <= MaxRetries
\* attempts with a retryable status and attempt k + 1 with a 2xx status,
\* makeRequest returns that response and no error after exactly k + 1
\* attempts and k backoff waits, each wait between two attempts.
C2_RetryRecovery ==
    \A k \in 0..(ScriptLen - 1) :
        (/\ Returned
         /\ call.urlOK
         /\ k <= retryConfig.MaxRetries
         /\ \A i \in 1..k : RetryableStatus(call.script[i])
         /\ SuccessStatus(call.script[k + 1]))
        => /\ result.resp = Resp(call.script[k + 1].status)
           /\ result.err = NilErr
           /\ Attempts = k + 1
           /\ Slept = k
           /\ WaitsBetweenAttempts

\* C3: no retry on a non-retryable status.  When an attempt gets a non-2xx
\* status outside {429, 500, 502, 503, 504}, makeRequest returns a nil
\* response and an error describing the status code, after exactly one
\* attempt and no backoff wait, whatever MaxRetries is.
C3_NoRetryOnFatalStatus ==
    \A i \in 1..Attempts :
        (Returned /\ FatalStatus(call.script[i]))
        => /\ Attempts = 1
           /\ Slept = 0
           /\ result.resp = NilResp
           /\ result.err # NilErr
           /\ ErrorReports(result.err, call.script[i].status)

C3_Witness ==
    /\ Returned
    /\ call.urlOK
    /\ call.script[1] = Answer(404)
    /\ retryConfig.MaxRetries = MaxRetriesBound
    /\ Attempts = 1
    /\ result.resp = NilResp

\* C8: retry policy get/set.  GetRetryConfig returns the default policy
\* until SetRetryConfig is called and afterwards the whole policy of the
\* most recent call, and later requests use that policy: a call whose first
\* attempt fails with a retryable status makes no further attempt when the
\* policy has MaxRetries = 0, and otherwise makes a second attempt after a
\* wait of calculateBackoff under that policy.
C8_RequestsUsePolicy ==
    (/\ Returned
     /\ call.urlOK
     /\ RetryableStatus(call.script[1]))
    => IF GetRetryConfig.MaxRetries = 0
       THEN Attempts = 1 /\ Slept = 0
       ELSE /\ Attempts >= 2
            /\ Slept >= 1
            /\ Waits(trace)[1].d \in
                   {calculateBackoff(GetRetryConfig, a) : a \in 0..1}

\* C9 as stated: every request that makeRequest sends, for every client,
\* carries the API-key header set to the client's key and Content-Type:
\* application/json.
C9_EveryRequestCarriesKey ==
    \A i \in DOMAIN trace :
        IsRequest(trace[i]) =>
            /\ trace[i].headers[HdrApiKey] # Unset
            /\ trace[i].headers[HdrApiKey] = client.apiKey
            /\ trace[i].headers[HdrContentType] = "application/json"

\* C9, amended: every request that makeRequest sends carries Content-Type:
\* application/json; it carries the API-key header, set to the client's
\* key, exactly when the client's key is not empty (a client of NewClient),
\* and no API-key header when it is empty (a client of NewClientWithOAuth2).
C9_HeadersOfEveryRequest ==
    \A i \in DOMAIN trace :
        IsRequest(trace[i]) =>
            /\ trace[i].headers[HdrContentType] = "application/json"
            /\ client.apiKey # NoKey => trace[i].headers[HdrApiKey] = client.apiKey
            /\ client.apiKey = NoKey => trace[i].headers[HdrApiKey] = Unset

C9_Witness ==
    /\ Returned
    /\ Attempts = 1
    /\ client.apiKey = "key-1"
    /\ Requests(trace)[1].headers[HdrApiKey] = "key-1"


\* C26: when makeRequest returns an error no response body is left open,
\* for a retryable status and a non-retryable status alike; when it
\* returns a response exactly one body is open, that of the successful
\* attempt, which is the response handed to the caller.
C26_NoLeakedBody ==
    Returned =>
        /\ result.err # NilErr => (open = {} /\ result.resp = NilResp)
        /\ result.err = NilErr =>
               /\ open = {Attempts}
               /\ Attempts >= 1
               /\ SuccessStatus(call.script[Attempts])
               /\ result.resp = Resp(call.script[Attempts].status)

\* a retryable status was answered and its body is closed
C26_Witness ==
    /\ Returned
    /\ call.urlOK
    /\ call.script[1] = Answer(503)
    /\ Attempts = 1
    /\ result.err = ErrStatus(503)
    /\ open = {}

\* no attempt follows an attempt that is a success or a non-retryable
\* failure
StopsAtFirstFinal ==
    \A i \in 1..Attempts :
        (SuccessStatus(call.script[i]) \/ FatalStatus(call.script[i])) => Attempts = i

\* the call returned a response or an error, not both
ReturnedOne == (result.resp = NilResp) # (result.err = NilErr)

\* C28: for every retry policy and every sequence of outcomes makeRequest
\* makes at least 1 and at most MaxRetries+1 attempts, stops at the first
\* attempt that is a success or a non-retryable failure and returns a
\* response or an error; with MaxRetries = 0 it makes exactly one attempt
\* and waits for no backoff.
C28_BoundedAttempts ==
    Returned =>
        /\ Attempts >= 1
        /\ Attempts <= retryConfig.MaxRetries + 1
        /\ StopsAtFirstFinal
        /\ ReturnedOne
        /\ retryConfig.MaxRetries = 0 => (Attempts = 1 /\ Slept = 0)

\* C28, amended: the bounds hold for a request that could be created; when
\* the request cannot be created makeRequest returns that error without
\* any attempt.
C28_BoundedAttemptsOnceCreated ==
    Returned =>
        /\ call.urlOK =>
               /\ Attempts >= 1
               /\ Attempts <= retryConfig.MaxRetries + 1
               /\ retryConfig.MaxRetries = 0 => (Attempts = 1 /\ Slept = 0)
        /\ ~call.urlOK =>
               /\ Attempts = 0
               /\ Slept = 0
               /\ result.err = ErrCreateRequest
        /\ StopsAtFirstFinal
        /\ ReturnedOne

\* the policy allows no retry and the only attempt fails with a retryable
\* status
C28_Witness ==
    /\ Returned
    /\ call.urlOK
    /\ retryConfig.MaxRetries = 0
    /\ RetryableStatus(call.script[1])
    /\ Attempts = 1
    /\ Slept = 0
    /\ result.err # NilErr
----------------------------------------------------------------------------
(* Properties of the retry policy (specification SpecRetry) *)

AppliedBackoff == fn = "calculateBackoff"
AppliedRetryable == fn = "isRetryableError"

\* C4: retry classification.  isRetryableError(err, s) is true exactly when
\* err is non-nil or s is one of 429, 500, 502, 503, 504; with a nil error
\* it is false for every other status, 200, 400, 401, 403 and 404 included.
C4_RetryClassification ==
    AppliedRetryable =>
        /\ ret = (arg.err \/ arg.statusCode \in {429, 500, 502, 503, 504})
        /\ (~arg.err /\ arg.statusCode \in {200, 400, 401, 403, 404}) => ret = FALSE

C4_Witness ==
    /\ AppliedRetryable
    /\ ~arg.err
    /\ arg.statusCode = 404
    /\ ret = FALSE

----------------------------------------------------------------------------
(* Properties of the resolvers (specification SpecResolve) *)

Resolved == pc = "done" /\ call.op \in {"ResolveNetworkID", "ResolveOrganizationID"}

\* the listing call succeeded and returned the candidates call.reply.listing
Listed == call.urlOK /\ SuccessStatus(call.reply.out) /\ call.reply.decodes

\* the candidates whose id is the token; those whose name is the token,
\* ignoring letter case
IdHits == {i \in DOMAIN call.reply.listing : call.reply.listing[i].id = call.token}
NameHits ==
    {i \in DOMAIN call.reply.listing :
        ToLower(call.reply.listing[i].name) = ToLower(call.token)}

\* C10: resolver exact-ID priority.  When the token equals the id of some
\* candidate of the listing, ResolveNetworkID and ResolveOrganizationID
\* return that id and no error, even when the token also equals, ignoring
\* case, the name of other candidates.
C10_ExactIdPriority ==
    (Resolved /\ call.token # EmptyString /\ Listed /\ IdHits # {})
    => /\ result.id = call.token
       /\ result.err = NilErr

C10_Witness ==
    /\ Resolved
    /\ Listed
    /\ call.reply.listing = <<[id |-> <<"A">>, name |-> <<"X">>],
                              [id |-> <<"X">>, name |-> <<"Y", "o">>]>>
    /\ call.token = <<"X">>
    /\ NameHits \ IdHits # {}
    /\ result.id = <<"X">>
    /\ result.err = NilErr

\* the ids an error message lists: the network resolver formats the ids, the
\* organization resolver formats "name (ID: id)" pairs
ListedIds(e) ==
    IF call.op = "ResolveNetworkID"
    THEN {e.args[j] : j \in DOMAIN e.args}
    ELSE {e.args[j].id : j \in DOMAIN e.args}

\* two candidates of the listing have the same name, ignoring letter case
Colliding(i, j) ==
    /\ i # j
    /\ ToLower(call.reply.listing[i].name) = ToLower(call.reply.listing[j].name)

\* C11: resolver ambiguity.  When the token matches no candidate id and
\* matches, ignoring case, the name of more than one candidate, both
\* resolvers return the empty ID and an error whose message lists the ids
\* of all colliding candidates, never one of the matches; resolving by the
\* id of either of two colliding candidates succeeds with that id.
C11_AmbiguityIsAnError ==
    /\ (Resolved /\ call.token # <<>> /\ Listed /\ IdHits = {}
            /\ Cardinality(NameHits) > 1)
       => /\ result.id = <<>>
          /\ result.err # NilErr
          /\ ListedIds(result.err) = {call.reply.listing[i].id : i \in NameHits}
          /\ Len(result.err.args) = Cardinality(NameHits)
    /\ (Resolved /\ Listed
            /\ \E i, j \in DOMAIN call.reply.listing :
                   Colliding(i, j) /\ call.reply.listing[i].id = call.token)
       => /\ result.id = call.token
          /\ result.err = NilErr

C11_Witness ==
    /\ Resolved
    /\ call.op = "ResolveNetworkID"
    /\ Listed
    /\ call.reply.listing = <<[id |-> <<"A">>, name |-> <<"X">>],
                              [id |-> <<"X">>, name |-> <<"x">>]>>
    /\ call.token = <<"x">>
    /\ result.id = <<>>
    /\ result.err.args = << <<"A">>, <<"X">> >>

\* C12: resolver case-insensitive name match.  When the token matches no
\* candidate id and exactly one candidate's name equals the token ignoring
\* letter case, both resolvers return that candidate's id and no error.
C12_CaseInsensitiveNameMatch ==
    (Resolved /\ call.token # <<>> /\ Listed /\ IdHits = {}
         /\ Cardinality(NameHits) = 1)
    => /\ \A i \in NameHits : result.id = call.reply.listing[i].id
       /\ result.err = NilErr

C12_Witness ==
    /\ Resolved
    /\ call.op = "ResolveOrganizationID"
    /\ Listed
    /\ call.reply.listing = <<[id |-> <<"X">>, name |-> <<"x">>],
                              [id |-> <<"A">>, name |-> <<"Y", "o">>]>>
    /\ call.token = <<"Y", "O">>
    /\ result.id = <<"A">>
    /\ result.err = NilErr

\* C13: resolver not found.  When a non-empty token matches no candidate id
\* and no candidate name, both resolvers return the empty ID and a
\* not-found error whose message enumerates every candidate of the listing
\* as a name (ID: id) pair, in listing order, or states that no candidates
\* were found when the listing is empty.
C13_NotFound ==
    (Resolved /\ call.token # <<>> /\ Listed /\ IdHits = {} /\ NameHits = {})
    => /\ result.id = <<>>
       /\ result.err # NilErr
       /\ IF call.reply.listing = <<>>
          THEN /\ result.err.fmt \in
                      {"network '%s' not found in organization %s (no networks found)",
                       "organization '%s' not found (no organizations found)"}
               /\ result.err.args = <<>>
          ELSE /\ result.err.fmt \in
                      {"network '%s' not found in organization %s. Available networks: %v",
                       "organization '%s' not found. Available organizations: %v"}
               /\ Len(result.err.args) = Len(call.reply.listing)
               /\ \A i \in DOMAIN call.reply.listing :
                      /\ result.err.args[i].name = call.reply.listing[i].name
                      /\ result.err.args[i].id = call.reply.listing[i].id

C13_Witness ==
    /\ Resolved
    /\ call.op = "ResolveNetworkID"
    /\ Listed
    /\ Len(call.reply.listing) = 2
    /\ call.token = <<"Q">>
    /\ result.id = <<>>
    /\ Len(result.err.args) = 2
    /\ result.err.args[2].id = call.reply.listing[2].id

\* C14: resolver empty token.  Called with the empty token, both resolvers
\* return the empty ID and no error without any API call, whether the
\* listing endpoint would succeed or fail.
C14_EmptyTokenNoCall ==
    (Resolved /\ call.token = <<>>)
    => /\ result.id = <<>>
       /\ result.err = NilErr
       /\ trace = <<>>

C14_Witness ==
    /\ Resolved
    /\ call.op = "ResolveOrganizationID"
    /\ call.token = <<>>
    /\ call.reply.out = TransportFailure
    /\ result.id = <<>>
    /\ result.err = NilErr
    /\ trace = <<>>

----------------------------------------------------------------------------
(* Properties of the route fetchers (specification SpecRoutes) *)

RoutesReturned == pc = "done" /\ call.op = "getNetworkRoutes"

\* the endpoint answered 2xx with a body that decodes: the sub-fetch did not fail
Up(reply) == SuccessStatus(reply.out) /\ reply.decodes

\* the routes of a sub-fetch that did not fail, none for one that failed
From(reply, r) == IF Up(reply) THEN r.routes ELSE <<>>

\* the stacks the stack listing of the network discovers
Stacks == IF Up(call.world.stacks) THEN call.world.stacks.listing ELSE <<>>

RECURSIVE FromStacks(_)
FromStacks(k) ==
    IF k > Len(Stacks)
    THEN <<>>
    ELSE From(call.world.stack[k].interfaces,
              getSwitchStackRoutingInterfaces(client, call.networkID, Stacks[k].id,
                                              call.world.stack[k].interfaces))
         \o From(call.world.stack[k].staticRoutes,
                 getSwitchStackStaticRoutes(client, call.networkID, Stacks[k].id,
                                            call.world.stack[k].staticRoutes))
         \o From(call.world.stack[k].dhcp,
                 getSwitchStackDHCPRoutes(client, call.networkID, Stacks[k].id,
                                          call.world.stack[k].dhcp))
         \o FromStacks(k + 1)

\* the concatenation of the sub-fetches that did not fail, in source order
UnionInSourceOrder ==
    From(call.world.static,
         getNetworkStaticRoutes(client, call.networkID, call.world.static))
    \o From(call.world.vpn,
            getNetworkVPNRoutes(client, call.networkID, call.world.vpn))
    \o From(call.world.vlans,
            getNetworkVLANRoutes(client, call.networkID, call.world.vlans))
    \o From(call.world.switchInterfaces,
            getNetworkSwitchInterfaces(client, call.networkID, call.world.switchInterfaces))
    \o From(call.world.switchStatic,
            getNetworkSwitchStaticRoutes(client, call.networkID, call.world.switchStatic))
    \o FromStacks(1)

\* the network of TestClient_getNetworkRoutes: 1 static route, 1 VPN subnet
\* with useVpn = true, 1 VLAN with a subnet, no switch or stack data
TestNetwork ==
    /\ call.world.static = Serving(StaticBody("test"))
    /\ call.world.vpn = Serving(VpnBody("test"))
    /\ call.world.vlans = Serving(VlansBody("test"))
    /\ call.world.switchInterfaces = Serving(<<>>)
    /\ call.world.switchStatic = Serving(<<>>)
    /\ call.world.stacks = Serving(<<>>)

SubnetsOf(routes) == [i \in DOMAIN routes |-> routes[i].Subnet]

\* C15: route aggregation union.  getNetworkRoutes returns the
\* concatenation, without deduplication, of the routes of every sub-fetch
\* that did not fail, in the order appliance static routes, VPN subnets
\* with useVpn = true, VLANs, switch interfaces, switch static routes, then
\* for each stack its interfaces, static routes and DHCP relays; the
\* network of the test yields exactly its 3 routes in that order.
C15_RouteAggregationUnion ==
    RoutesReturned =>
        /\ result.routes = UnionInSourceOrder
        /\ Up(call.world.vpn) =>
               Len(getNetworkVPNRoutes(client, call.networkID, call.world.vpn).routes)
                   = Cardinality({i \in DOMAIN call.world.vpn.listing :
                                      call.world.vpn.listing[i].useVpn})
        /\ TestNetwork =>
               SubnetsOf(result.routes) = <<"192.168.1.0/24", "10.0.0.0/8", "172.16.1.0/24">>

C15_Witness ==
    /\ RoutesReturned
    /\ \A src \in NetworkSources : Up(call.world[src])
    /\ Len(Stacks) = 2
    /\ \A k \in 1..2, src \in StackSources : Up(call.world.stack[k][src])
    /\ call.world.static = Serving(StaticBody("mixed"))
    /\ Len(result.routes) = 13
    /\ result.routes[1] = result.routes[2]
    /\ result.routes[4].Subnet = "10.1.0.0/16"

\* the endpoints a call requests, in order: the six of the network, then
\* three for every stack the listing discovers
StackEndpoints(k) ==
    <<<<"/networks/", call.networkID, "/switch/stacks/", Stacks[k].id, "/routing/interfaces">>,
      <<"/networks/", call.networkID, "/switch/stacks/", Stacks[k].id, "/routing/staticRoutes">>,
      <<"/networks/", call.networkID, "/switch/stacks/", Stacks[k].id, "/routing/dhcp">>>>

RECURSIVE AllStackEndpoints(_)
AllStackEndpoints(k) ==
    IF k > Len(Stacks) THEN <<>> ELSE StackEndpoints(k) \o AllStackEndpoints(k + 1)

EverySubFetch ==
    <<<<"/networks/", call.networkID, "/appliance/staticRoutes">>,
      <<"/networks/", call.networkID, "/appliance/vpn/siteToSiteVpn">>,
      <<"/networks/", call.networkID, "/appliance/vlans">>,
      <<"/networks/", call.networkID, "/switch/routing/interfaces">>,
      <<"/networks/", call.networkID, "/switch/routing/staticRoutes">>,
      <<"/networks/", call.networkID, "/switch/stacks">>>>
    \o AllStackEndpoints(1)

EndpointsOf(tr) == [i \in DOMAIN tr |-> tr[i].endpoint]

\* C16: route sub-fetch tolerance.  Whatever sub-fetches fail,
\* getNetworkRoutes returns no error, every sub-fetch is still called (the
\* six of the network and three for every discovered stack), a failed
\* sub-fetch contributes no route and the others contribute theirs.
C16_SubFetchTolerance ==
    RoutesReturned =>
        /\ result.err = NilErr
        /\ EndpointsOf(Requests(trace)) = EverySubFetch
        /\ Len(trace) = 6 + 3 * Len(Stacks)
        /\ result.routes = UnionInSourceOrder

C16_Witness ==
    /\ RoutesReturned
    /\ ~Up(call.world.static)
    /\ ~Up(call.world.switchInterfaces)
    /\ Up(call.world.switchStatic)
    /\ call.world.switchStatic.listing # <<>>
    /\ Len(Stacks) = 2
    /\ ~Up(call.world.stack[1].interfaces)
    /\ Up(call.world.stack[2].dhcp)
    /\ Len(trace) = 12
    /\ result.err = NilErr
    /\ \E i \in DOMAIN result.routes : result.routes[i].GatewayIP = "10.4.0.254"
    /\ \E i \in DOMAIN result.routes : result.routes[i].GatewayIP = "10.9.9.9"

\* the formats of the IDs of the routes synthesized from a VLAN, from a
\* switch L3 interface and from a switch-stack L3 interface
VlanFormat == "vlan-%d"
SwitchInterfaceFormat == "switch-iface-%s"
StackInterfaceFormat == "stack-%s-iface-%s"

FromInterface(route) ==
    /\ route.ID # <<>>
    /\ route.ID[1] \in {VlanFormat, SwitchInterfaceFormat, StackInterfaceFormat}

\* the entries of an endpoint that answers which have a subnet, none for
\* an endpoint that fails
WithSubnet(reply) ==
    IF Up(reply)
    THEN {i \in DOMAIN reply.listing : reply.listing[i].subnet # ""}
    ELSE {}
WithoutSubnet(reply) ==
    IF Up(reply)
    THEN {i \in DOMAIN reply.listing : reply.listing[i].subnet = ""}
    ELSE {}

\* the positions of the returned routes with an ID of a format, and of a
\* stack
Synthesized(format) ==
    {i \in DOMAIN result.routes :
         result.routes[i].ID # <<>> /\ result.routes[i].ID[1] = format}
SynthesizedOfStack(k) ==
    {i \in Synthesized(StackInterfaceFormat) : result.routes[i].ID[2] = Stacks[k].id}

\* C24: every route getNetworkRoutes returns that was synthesized from a
\* VLAN, a switch L3 interface or a switch-stack L3 interface has a
\* subnet, and each of these sources yields as many routes as it has
\* entries with a subnet: an entry without subnet produces no route.
C24_NonEmptySubnet ==
    RoutesReturned =>
        /\ \A i \in DOMAIN result.routes :
               FromInterface(result.routes[i]) => result.routes[i].Subnet # ""
        /\ Cardinality(Synthesized(VlanFormat))
               = Cardinality(WithSubnet(call.world.vlans))
        /\ Cardinality(Synthesized(SwitchInterfaceFormat))
               = Cardinality(WithSubnet(call.world.switchInterfaces))
        /\ \A k \in DOMAIN Stacks :
               Cardinality(SynthesizedOfStack(k))
                   = Cardinality(WithSubnet(call.world.stack[k].interfaces))

\* the three sources answer, each with an entry without subnet
C24_Witness ==
    /\ RoutesReturned
    /\ Len(Stacks) = 1
    /\ WithoutSubnet(call.world.vlans) # {}
    /\ WithoutSubnet(call.world.switchInterfaces) # {}
    /\ WithoutSubnet(call.world.stack[1].interfaces) # {}
    /\ Cardinality(Synthesized(VlanFormat)) = 1
    /\ Cardinality(Synthesized(SwitchInterfaceFormat)) = 1
    /\ Cardinality(SynthesizedOfStack(1)) = 1

----------------------------------------------------------------------------
(* Properties of the aggregators (specification SpecAggregate) *)

Aggregated ==
    pc = "done" /\ call.op \in {"GetAllNetworkRoutes", "GetAllNetworkDevices"}

\* the network listing of the organization succeeded
ListingSucceeded == call.urlOK /\ Up(call.reply)

\* every endpoint of the k-th listed network fails
NetworkDown(k) == \A src \in NetworkSources : ~Up(call.worlds[k][src])

\* C17: partial aggregation resilience.  When the network listing succeeds,
\* GetAllNetworkRoutes and GetAllNetworkDevices return no error and exactly
\* one entry per listed network, in listing order; the entry of a network
\* whose fetch fails has an empty record set, the entries of the others
\* hold what their fetches returned.
C17_PartialAggregation ==
    (Aggregated /\ ListingSucceeded) =>
        /\ result.err = NilErr
        /\ Len(result.entries) = Len(call.reply.listing)
        /\ \A k \in DOMAIN call.reply.listing :
               /\ result.entries[k].Network = call.reply.listing[k]
               /\ IF call.op = "GetAllNetworkRoutes"
                  THEN /\ result.entries[k].Routes =
                              getNetworkRoutes(client, call.reply.listing[k].id,
                                               call.worlds[k]).routes
                       /\ NetworkDown(k) => result.entries[k].Routes = <<>>
                  ELSE result.entries[k].Devices =
                           IF Up(call.replies[k]) THEN call.replies[k].listing ELSE <<>>

C17_Witness ==
    /\ Aggregated
    /\ call.op = "GetAllNetworkDevices"
    /\ ListingSucceeded
    /\ Len(call.reply.listing) = 2
    /\ call.replies[1] = Serving(DevicesBody)
    /\ call.replies[2] = Failing("status")
    /\ result.err = NilErr
    /\ result.entries[1].Devices = DevicesBody
    /\ result.entries[2].Network = call.reply.listing[2]
    /\ result.entries[2].Devices = <<>>

\* a fetch for one explicit organization and network
SingleScope ==
    pc = "done" /\ call.op \in {"GetRoutes", "GetDevices"} /\ call.token # <<>>

\* the token resolves: the listing succeeds and the token is the id of a
\* listed network or the name, ignoring case, of exactly one
Resolvable == ListingSucceeded /\ (IdHits # {} \/ Cardinality(NameHits) = 1)

\* the id the token resolves to
TargetId ==
    IF IdHits # {}
    THEN call.token
    ELSE call.reply.listing[CHOOSE i \in NameHits : TRUE].id

\* the fetch for the network fails: its devices endpoint fails; every one
\* of its route endpoints fails
FetchFails ==
    IF call.op = "GetDevices"
    THEN ~Up(ServerOf(call.reply.listing, call.replies, TargetId))
    ELSE \A src \in NetworkSources :
             ~Up(ServerOf(call.reply.listing, call.worlds, TargetId)[src])

\* C19 as stated: a fetch for one explicit organization and network
\* (GetRoutes or GetDevices with a non-empty network token) returns an
\* error, and no records, when the token cannot be resolved or when the
\* fetch for that network fails.
C19_SingleScopePropagation ==
    (SingleScope /\ (~Resolvable \/ FetchFails))
    => /\ result.err # NilErr
       /\ result.records = <<>>

\* C19, amended: GetRoutes and GetDevices with a non-empty network token
\* return an error, and no records, when the token cannot be resolved;
\* GetDevices also does when the devices request of the network fails, and
\* otherwise returns that network's devices; GetRoutes returns no error
\* once the token is resolved: it returns the routes of the sub-fetches
\* that did not fail, none when they all fail.
C19_SingleScopeErrors ==
    SingleScope =>
        /\ ~Resolvable => (result.err # NilErr /\ result.records = <<>>)
        /\ (Resolvable /\ call.op = "GetDevices") =>
               IF FetchFails
               THEN /\ result.err.fmt = "failed to get devices for network %s: %w"
                    /\ result.records = <<>>
               ELSE /\ result.err = NilErr
                    /\ result.records =
                           ServerOf(call.reply.listing, call.replies, TargetId).listing
        /\ (Resolvable /\ call.op = "GetRoutes") =>
               /\ result.err = NilErr
               /\ result.records =
                      getNetworkRoutes(client, TargetId,
                          ServerOf(call.reply.listing, call.worlds, TargetId)).routes
               /\ FetchFails => result.records = <<>>

C19_Witness ==
    /\ SingleScope
    /\ call.op = "GetRoutes"
    /\ call.token = <<"x">>
    /\ Resolvable
    /\ TargetId = <<"A">>
    /\ FetchFails
    /\ Len(trace) = 7
    /\ result.err = NilErr
    /\ result.records = <<>>

\* GetAllNetworkLicenses has returned a view
LicenseView ==
    pc = "done" /\ call.op = "GetAllNetworkLicenses" /\ result.err = NilErr

\* the licenses GetLicenses fetched: none when it failed
OrgLicenses ==
    IF Up(call.licensesReply) THEN call.licensesReply.listing ELSE <<>>

\* the positions of the licenses of the organization that are in entry k
InEntry(k) ==
    {i \in DOMAIN OrgLicenses :
         \E j \in DOMAIN result.entries[k].Licenses :
             result.entries[k].Licenses[j] = OrgLicenses[i]}

\* C20: in the view of GetAllNetworkLicenses there is one entry for every
\* listed network, and a license of the organization is in the entry of
\* network N exactly when its networkId is N's id or is empty: a license
\* without networkId is in every entry, a license with a networkId is in
\* the entries of that network only.
C20_LicenseAttribution ==
    LicenseView =>
        /\ Len(result.entries) = Len(call.reply.listing)
        /\ \A k \in DOMAIN result.entries :
               /\ result.entries[k].Network = call.reply.listing[k]
               /\ \A j \in DOMAIN result.entries[k].Licenses :
                      \E i \in DOMAIN OrgLicenses :
                          result.entries[k].Licenses[j] = OrgLicenses[i]
               /\ \A i \in DOMAIN OrgLicenses :
                      i \in InEntry(k) <=>
                          \/ OrgLicenses[i].NetworkID = call.reply.listing[k].id
                          \/ OrgLicenses[i].NetworkID = <<>>
               /\ \A i \in DOMAIN OrgLicenses :
                      OrgLicenses[i].NetworkID = <<>> => i \in InEntry(k)
               /\ \A i \in DOMAIN OrgLicenses :
                      (/\ OrgLicenses[i].NetworkID # <<>>
                       /\ OrgLicenses[i].NetworkID # call.reply.listing[k].id)
                      => i \notin InEntry(k)

\* two networks, a license without networkId and a license of the first
\* network: the first entry has both, the second the license without
C20_Witness ==
    /\ LicenseView
    /\ Len(result.entries) = 2
    /\ result.entries[1].Network.id # result.entries[2].Network.id
    /\ Len(OrgLicenses) = 2
    /\ OrgLicenses[1].NetworkID = <<>>
    /\ OrgLicenses[2].NetworkID = result.entries[1].Network.id
    /\ result.entries[1].Licenses = OrgLicenses
    /\ result.entries[2].Licenses = <<OrgLicenses[1]>>

\* GetAllNetworkLicenses has returned
LicensesCalled == pc = "done" /\ call.op = "GetAllNetworkLicenses"

\* the two requests of the view: the network listing of the organization,
\* then its licenses
LicenseRequests ==
    <<NetworksEndpoint(call.organizationID),
      <<"/organizations/", call.organizationID, "/licenses">>>>

\* C27: GetAllNetworkLicenses makes no request per network.  It requests
\* the network listing once and, when the listing answers, the licenses of
\* the organization once, whatever the number of listed networks, and
\* nothing else; when the licenses request fails it still returns no error
\* and one entry for every listed network, each without licenses.
C27_NoPerNetworkCall ==
    LicensesCalled =>
        /\ Len(trace) <= 2
        /\ \A i \in DOMAIN trace :
               IsRequest(trace[i]) /\ trace[i].endpoint = LicenseRequests[i]
        /\ (call.urlOK /\ ~Up(call.reply)) => Len(trace) = 1
        /\ Up(call.reply) => (Len(trace) = 2 /\ result.err = NilErr)
        /\ (Up(call.reply) /\ ~Up(call.licensesReply)) =>
               /\ Len(result.entries) = Len(call.reply.listing)
               /\ \A k \in DOMAIN result.entries :
                      /\ result.entries[k].Network = call.reply.listing[k]
                      /\ result.entries[k].Licenses = <<>>

\* two networks are listed and the licenses request fails
C27_Witness ==
    /\ LicensesCalled
    /\ Up(call.reply)
    /\ Len(call.reply.listing) = 2
    /\ ~Up(call.licensesReply)
    /\ Len(trace) = 2
    /\ result.err = NilErr
    /\ Len(result.entries) = 2
    /\ result.entries[1].Licenses = <<>>
    /\ result.entries[2].Licenses = <<>>

----------------------------------------------------------------------------
(* Properties of the command handlers (specification SpecMain) *)

\* a consolidated handler has returned, and its output was written
Handled ==
    /\ pc = "done"
    /\ call.op \in {"infoAllNetworkRoutesConsolidated",
                    "infoAllNetworkDownDevicesConsolidated"}
    /\ call.writeOK

\* the listing at the top of the scope: the organization listing without
\* an organization scope, the network listing of the organization with one
TopLevelListing ==
    IF call.cfg.Organization = EmptyString
    THEN call.cloud.orgs
    ELSE Behind(call.cloud, call.cfg.Organization).listing

\* organization k is in the scope of the command
InScope(k) == call.cfg.Organization \in {EmptyString, call.cloud.ids[k]}

\* the records network j of organization k has to offer: the routes of
\* its sub-fetches that answer, its devices that are down
Offered(k, j) ==
    IF call.op = "infoAllNetworkRoutesConsolidated"
    THEN LET routes == getNetworkRoutes(client, NetworkAt(k, j).id,
                                        call.cloud.behind[k].sites[j].world).routes
         IN  {[Route |-> routes[i], NetworkID |-> NetworkAt(k, j).id] :
                  i \in DOMAIN routes}
    ELSE IF /\ call.cloud.behind[k].sites[j].relist
            /\ Up(call.cloud.behind[k].sites[j].devices)
    THEN {[Device |-> d, NetworkName |-> NetworkAt(k, j).name,
           Organization |-> OrgAt(k).name] :
              d \in {call.cloud.behind[k].sites[j].devices.listing[i] :
                         i \in {i \in DOMAIN call.cloud.behind[k].sites[j].devices.listing :
                                    isDeviceDown(call.cloud.behind[k].sites[j].devices.listing[i].Status)}}}
    ELSE {}

\* the records of the output, reduced to the fields of Offered
Collected ==
    IF call.op = "infoAllNetworkRoutesConsolidated"
    THEN {[Route |-> result.records[i].Route, NetworkID |-> result.records[i].NetworkID] :
              i \in DOMAIN result.records}
    ELSE {result.records[i] : i \in DOMAIN result.records}

\* C18: a consolidated (--all) handler returns an error exactly when the
\* listing at the top of its scope fails (the organization listing without
\* an organization scope, the network listing of the organization with one);
\* otherwise every organization of the scope whose network listing answers
\* and every network of it is processed, whatever fails beside them.
C18_AggregatedErrorPropagation ==
    Handled =>
        /\ (result.err # NilErr) <=> ~Up(TopLevelListing)
        /\ Up(TopLevelListing) =>
               \A k \in DOMAIN call.cloud.behind :
                   (InScope(k) /\ Up(call.cloud.behind[k].listing)) =>
                       \A j \in DOMAIN call.cloud.behind[k].sites :
                           Offered(k, j) \subseteq Collected

\* the fields of a record of the output that Offered has
Reduced(record) ==
    IF call.op = "infoAllNetworkRoutesConsolidated"
    THEN [Route |-> record.Route, NetworkID |-> record.NetworkID]
    ELSE [Device |-> record.Device, NetworkName |-> record.NetworkName,
          Organization |-> record.Organization]

\* the record carries the names and the ids of organization k and of its
\* network j, as the listings give them
Annotated(record, k, j) ==
    /\ {"Organization", "OrganizationID", "NetworkName", "NetworkID"}
           \subseteq DOMAIN record
    /\ record.Organization = OrgAt(k).name
    /\ record.OrganizationID = OrgAt(k).id
    /\ record.NetworkName = NetworkAt(k, j).name
    /\ record.NetworkID = NetworkAt(k, j).id

\* C23: every record of the output of a consolidated (--all) handler
\* carries the organization name, the organization ID, the network name
\* and the network ID of the organization and the network it was fetched
\* from, as the listings give them: the organization name is the name of
\* the organization, not its ID.
C23_ScopeAnnotation ==
    Handled =>
        \A i \in DOMAIN result.records :
            \E k \in DOMAIN call.cloud.behind :
                \E j \in DOMAIN call.cloud.behind[k].sites :
                    /\ Reduced(result.records[i]) \in Offered(k, j)
                    /\ Annotated(result.records[i], k, j)

\* a consolidated handler has returned
HandlerReturned ==
    /\ pc = "done"
    /\ call.op \in {"infoAllNetworkRoutesConsolidated",
                    "infoAllNetworkDownDevicesConsolidated"}

\* the networks organization k lists, none when its listing fails
NetworksOf(k) ==
    IF Up(call.cloud.behind[k].listing)
    THEN call.cloud.behind[k].listing.listing
    ELSE <<>>

\* the position of an organization in the organization listing, by its id
\* or its name, and the positions of a network in the network listings
OrgPosition(organization) ==
    CHOOSE k \in DOMAIN call.cloud.ids :
        \/ organization = call.cloud.ids[k]
        \/ /\ Up(call.cloud.orgs)
           /\ organization = call.cloud.orgs.listing[k].name
OrgOfNetwork(network) ==
    CHOOSE k \in DOMAIN call.cloud.ids :
        \E j \in DOMAIN NetworksOf(k) :
            network \in {NetworksOf(k)[j].id, NetworksOf(k)[j].name}
NetworkPosition(k, network) ==
    CHOOSE j \in DOMAIN NetworksOf(k) :
        network \in {NetworksOf(k)[j].id, NetworksOf(k)[j].name}

\* the organization a request is made for (0 for the organization
\* listing) and the network (0 for a request on the organization)
OnNetwork(e) == e.endpoint[1] = "/networks/"
OrgOfRequest(e) ==
    IF Len(e.endpoint) < 2 THEN 0
    ELSE IF OnNetwork(e) THEN OrgOfNetwork(e.endpoint[2])
    ELSE OrgPosition(e.endpoint[2])
NetworkOfRequest(e) ==
    IF OnNetwork(e)
    THEN NetworkPosition(OrgOfNetwork(e.endpoint[2]), e.endpoint[2])
    ELSE 0

\* the organization and the network of a record of the output
OrgOfRecord(record) ==
    IF call.cfg.Organization # EmptyString
          /\ call.op = "infoAllNetworkRoutesConsolidated"
    THEN OrgPosition(record.Organization)
    ELSE CHOOSE k \in DOMAIN call.cloud.orgs.listing :
             call.cloud.orgs.listing[k].name = record.Organization
NetworkOfRecord(record) ==
    IF call.op = "infoAllNetworkRoutesConsolidated"
    THEN NetworkPosition(OrgOfRecord(record), record.NetworkID)
    ELSE NetworkPosition(OrgOfRecord(record), record.NetworkName)

\* a sequence of pairs (organization, network) in which no pair is
\* followed by a pair of an earlier organization, or of an earlier network
\* of the same organization
PairLeq(p, q) == p[1] < q[1] \/ (p[1] = q[1] /\ p[2] <= q[2])
NonDecreasing(pairs) ==
    \A i \in DOMAIN pairs : i + 1 \in DOMAIN pairs => PairLeq(pairs[i], pairs[i + 1])

\* the requests on networks follow the listings
RequestsInOrder(requests) ==
    NonDecreasing([i \in DOMAIN requests |->
                       <<OrgOfRequest(requests[i]), NetworkOfRequest(requests[i])>>])

\* C25: a consolidated handler processes the organizations in the order of
\* the organization listing and the networks of each in the order of its
\* network listing: every request for one organization is made before the
\* first request for the next, the requests on the networks of one
\* organization follow the network listing, and the records of the output
\* are in the same organization-then-network order.
C25_SequentialOrdering ==
    HandlerReturned =>
        /\ NonDecreasing([i \in DOMAIN trace |-> <<OrgOfRequest(trace[i]), 0>>])
        /\ RequestsInOrder(SelectSeq(trace, OnNetwork))
        /\ NonDecreasing([i \in DOMAIN result.records |->
                              <<OrgOfRecord(result.records[i]),
                                NetworkOfRecord(result.records[i])>>])

\* two organizations, the first with two networks, all with records in
\* the output
C25_Witness ==
    /\ HandlerReturned
    /\ call.op = "infoAllNetworkRoutesConsolidated"
    /\ call.cfg.Organization = EmptyString
    /\ Len(call.cloud.ids) = 2
    /\ \E a, b, c \in DOMAIN result.records :
           /\ a < b /\ b < c
           /\ OrgOfRecord(result.records[a]) = 1
           /\ NetworkOfRecord(result.records[a]) = 1
           /\ OrgOfRecord(result.records[b]) = 1
           /\ NetworkOfRecord(result.records[b]) = 2
           /\ OrgOfRecord(result.records[c]) = 2
    /\ \E a, b \in DOMAIN trace :
           OrgOfRequest(trace[a]) = 1 /\ OrgOfRequest(trace[b]) = 2

----------------------------------------------------------------------------
(* Properties of the device classifiers (specification SpecDevices) *)

\* two strings are equal but for the case of their letters
SameLetter(a, b) ==
    a = b \/ \E i \in DOMAIN UpperCase : {a, b} = {UpperCase[i], LowerCase[i]}
EqualFold(str, other) ==
    Len(str) = Len(other) /\ \A i \in DOMAIN str : SameLetter(str[i], other[i])

\* the status is one of offline, alerting, dormant, down, unreachable,
\* disconnected, in any case
NamedDown(status) == \E name \in DownStatuses : EqualFold(status, name)
NamedAlerting(status) ==
    EqualFold(status, <<"a", "l", "e", "r", "t", "i", "n", "g">>)

\* the devices the call fetched, in fetch order: those of the network of
\* the token, or those of every listed network whose devices endpoint
\* answers
RECURSIVE FetchedFrom(_)
FetchedFrom(k) ==
    IF k > Len(call.reply.listing)
    THEN <<>>
    ELSE (IF Up(call.replies[k]) THEN call.replies[k].listing ELSE <<>>)
         \o FetchedFrom(k + 1)
DevicesFetched ==
    IF call.token = EmptyString
    THEN FetchedFrom(1)
    ELSE ServerOf(call.reply.listing, call.replies, call.token).listing

DeviceNamedDown(device) == NamedDown(device.Status)

Classified == pc = "done" /\ call.op = "classify"
DownReturned == pc = "done" /\ call.op = "GetDownDevices" /\ result.err = NilErr

\* C21: isDeviceDown is true of a status exactly when the status is, in
\* any case, one of offline, alerting, dormant, down, unreachable,
\* disconnected; GetDownDevices returns the fetched devices with such a
\* status, in fetch order, and never a device that is online or has no
\* status.
C21_DownClassification ==
    /\ Classified => (result.down <=> NamedDown(call.status))
    /\ DownReturned =>
           /\ result.records = SelectSeq(DevicesFetched, DeviceNamedDown)
           /\ \A i \in DOMAIN result.records :
                  result.records[i].Status \notin {StatusOnline, EmptyString}

C21_Witness ==
    /\ DownReturned
    /\ Len(DevicesFetched) = 5
    /\ DevicesFetched[1].Status = EmptyString
    /\ DevicesFetched[2].Status = <<"O", "F", "F", "L", "I", "N", "E">>
    /\ result.records = <<DevicesFetched[2], DevicesFetched[3], DevicesFetched[5]>>

AlertingReturned == pc = "done" /\ call.op = "GetAlertingDevices"

\* GetDevices can fetch: the network listing answers and so does the
\* devices endpoint of the network of the token
DevicesFetchable ==
    /\ Up(call.reply)
    /\ call.token # EmptyString =>
           Up(ServerOf(call.reply.listing, call.replies, call.token))

\* the organization-wide statuses call succeeds, and what it reports
StatusCallUp == Up(call.statusesReply)
ReportsOf(serial) ==
    {i \in DOMAIN call.statusesReply.listing :
         call.statusesReply.listing[i].Serial = serial}

\* the effective status of a fetched device: the status reported for its
\* serial (the last one, when several are), its own status when none is
\* or when the statuses call fails
EffectiveStatus(device) ==
    IF StatusCallUp /\ ReportsOf(device.Serial) # {}
    THEN call.statusesReply.listing[
             CHOOSE i \in ReportsOf(device.Serial) :
                 \A j \in ReportsOf(device.Serial) : j <= i].Status
    ELSE device.Status

DeviceNamedAlerting(device) == NamedAlerting(device.Status)

\* C22: GetAlertingDevices returns an error only when GetDevices does;
\* otherwise it returns, in fetch order and carrying their effective
\* status, the fetched devices whose effective status is alerting in any
\* case: the status the organization-wide statuses report for the serial
\* when that call succeeds, the device's own status when the serial is
\* not reported or when that call fails.
C22_AlertingWithFallback ==
    AlertingReturned =>
        /\ (result.err = NilErr) <=> DevicesFetchable
        /\ result.err # NilErr => result.records = <<>>
        /\ result.err = NilErr =>
               result.records =
                   SelectSeq([i \in DOMAIN DevicesFetched |->
                                  [DevicesFetched[i] EXCEPT
                                       !.Status = EffectiveStatus(DevicesFetched[i])]],
                             DeviceNamedAlerting)

\* the statuses call fails and a device whose own status is alerting is
\* returned, another one is not
C22_Witness ==
    /\ AlertingReturned
    /\ ~StatusCallUp
    /\ call.token # EmptyString
    /\ Len(DevicesFetched) = 2
    /\ DevicesFetched[1].Status = StatusOnline
    /\ DevicesFetched[2].Status = StatusAlerting
    /\ result.err = NilErr
    /\ result.records = <<DevicesFetched[2]>>

----------------------------------------------------------------------------
(* Further properties of the resolvers (specification SpecResolve) *)

\* the candidates of the listing whose name is the token but for the case
\* of its letters
FoldHits ==
    {i \in DOMAIN call.reply.listing : EqualFold(call.reply.listing[i].name, call.token)}

\* C29: when a resolver returns no error for a non-empty token, the
\* listing of that call succeeded and the returned ID is the id of one of
\* its candidates, which has the token as id or is the only candidate with
\* the token as name, ignoring letter case; when the listing call fails the
\* resolver returns the empty ID and an error.
C29_ResultIsListed ==
    (Resolved /\ call.token # EmptyString) =>
        /\ result.err = NilErr =>
               /\ Listed
               /\ Len(Requests(trace)) = 1
               /\ \E i \in DOMAIN call.reply.listing :
                      /\ result.id = call.reply.listing[i].id
                      /\ \/ call.reply.listing[i].id = call.token
                         \/ FoldHits = {i}
        /\ ~Listed => (result.id = EmptyString /\ result.err # NilErr)

\* the token is the name of one candidate in another case and the id of
\* none
C29_Witness ==
    /\ Resolved
    /\ call.token # EmptyString
    /\ Listed
    /\ Len(call.reply.listing) = 2
    /\ IdHits = {}
    /\ FoldHits = {2}
    /\ call.reply.listing[2].name # call.token
    /\ result.err = NilErr
    /\ result.id = call.reply.listing[2].id

----------------------------------------------------------------------------
(* Further properties of the device classifiers (specification SpecDevices) *)

\* C30: a status isDeviceAlerting accepts is a status isDeviceDown
\* accepts; so every device GetAlertingDevices returns carries a status
\* that classifies it as down as well.
C30_AlertingImpliesDown ==
    /\ Classified => (result.alerting => result.down)
    /\ (AlertingReturned /\ result.err = NilErr) =>
           \A i \in DOMAIN result.records :
               /\ isDeviceAlerting(result.records[i].Status)
               /\ isDeviceDown(result.records[i].Status)

\* a status that is alerting in another case is classified as both
C30_Witness ==
    /\ Classified
    /\ call.status = StatusAlerting
    /\ call.status \notin AlertingStatuses
    /\ result.alerting
    /\ result.down

====
